---- MODULE Spec2Model ----
(***************************************************************************)
(* Scheduling, resource-state and memory-persistence core of the digital   *)
(* being runtime (my_digital_being/framework and server.py).               *)
(*                                                                         *)
(* Units.  Time is counted in whole hours, energy in tenths, so that the   *)
(* recovery of State.update, (seconds / 3600) * 0.1, is one energy unit    *)
(* per time unit and EnergyMax == 10 is the float 1.0.                     *)
(***************************************************************************)
EXTENDS Integers, Sequences, FiniteSets, TLC

(***************************************************************************)
(* Bounds of the model.                                                    *)
(***************************************************************************)
MaxTime == 2
MaxRecords == 2
MaxAmount == 3
MaxStores == 2
MaxLen == 3
MaxClients == 2

(***************************************************************************)
(* Program constants.                                                      *)
(***************************************************************************)
EnergyMax == 10
RecoveryPerHour == 1

None == "None"
\* an unset (None) timestamp; clock readings are >= 0
NoTime == 0 - 1

(***************************************************************************)
(* Activity descriptors: the parameters of the @activity decorator.        *)
(***************************************************************************)
Activities == {"a1", "a2"}
cooldown == [a \in Activities |-> IF a = "a1" THEN 0 ELSE 2]
energy_cost == [a \in Activities |-> IF a = "a1" THEN 2 ELSE 3]

VARIABLES
  now,                  \* the wall clock read by datetime.now()
  last_activity_times,  \* ActivitySelector.last_activity_times
  constraints,          \* ActivitySelector.constraints: enabled flag per activity
  returned_at,          \* history: when select_next_activity last returned each activity
  configs,              \* DigitalBeing.configs[activity_constraints]: enabled flags
  configured,           \* DigitalBeing.configs[character_config][setup_complete]
  energy,               \* State.current_state[energy]
  last_activity_timestamp, \* State.current_state[last_activity_timestamp]
  last_completed_activity, \* presence of State._last_completed_activity
  running,              \* DigitalBeingServer.running
  paused,               \* DigitalBeingServer.paused
  pc,                   \* position of the _run_being_loop task
  current_activity,     \* the activity returned by the last selection
  executing,            \* activities whose execute has started and not finished
  raised,               \* history: the execute before this selection raised
  energy_at_selection,  \* history: the energy when the activity under way was selected
  state_file,           \* content of storage/state.json
  memory,               \* the Memory objects: short_term, long_term, chat_log
  files,                \* content of memory.json, memory.json.tmp, memory.json.bak
  persisting,           \* the Memory object inside persist() and its position
  file_before,          \* history: memory.json when the persist under way began
  durable_log,          \* history: entries seen in a completed persist
  persisted_by,         \* history: object whose persist completed, memory unchanged since
  opened,               \* the Memory objects that are constructed and loaded
  stores,               \* number of store_activity_result calls made
  recent,               \* the last get_recent_activities call: arguments and result
  sd_initialized,       \* SharedData.initialize has run
  sd_data,              \* SharedData._data: category -> key -> value (0: no such key)
  sd_locks,             \* SharedData._locks: category -> the thread holding the lock
  sd_thread,            \* per thread: the SharedData call under way
  sd_expected,          \* history: the writes applied one at a time, in lock order
  heap,                 \* the mutable objects: object -> content
  handed,               \* the value a read operation handed to its caller
  cleanup_attempted,    \* history: DigitalBeing.cleanup has been called
  io_failed,            \* history: a write to storage failed in the last step
  next_available,       \* the last list built by get_next_available_times
  personality,          \* State.current_state[personality]: creativity, friendliness
  factors,              \* creativity_factor and social_factor declared by each activity
  drawn,                \* the last weighted draw: candidates, weights, ticket, choice
  checked,              \* the last result of CheckPendingMessagesActivity.execute
  state_call,           \* history: the State operation called last
  gained,               \* history: energy added by update() since the timestamp was set
  clients,              \* DigitalBeingServer.clients: the number of connected clients
  broadcast,            \* broadcast_state under way: size of the set at its start, sends left
  tick_calls,           \* history: update() and persist() calls of the loop's tick, this iteration
  activity_loader,      \* ActivitySelector.activity_loader is set
  failed                \* history: the activities whose instantiation failed in the last selection

selVars == <<last_activity_times, constraints, returned_at>>
cfgVars == <<configs, configured>>
stateVars == <<energy, last_activity_timestamp, last_completed_activity, state_file>>
srvVars == <<running, paused>>
loopVars == <<pc, current_activity, executing, raised, energy_at_selection>>
memVars == <<memory, files, persisting, file_before, durable_log, persisted_by,
            opened, stores>>

\* values handed back by the read operations
sdVars == <<sd_initialized, sd_data, sd_locks, sd_thread, sd_expected>>
refVars == <<heap, handed>>
runVars == <<cleanup_attempted, io_failed>>
diagVars == <<next_available>>
\* what the calls observed outside the loop were given and returned
obsVars == <<personality, factors, drawn, checked>>
callVars == <<state_call, gained>>
bcVars == <<clients, broadcast, tick_calls>>
ldVars == <<activity_loader, failed>>
auxVars == <<recent, diagVars, obsVars, ldVars, callVars, bcVars, sdVars, refVars, runVars>>
vars == <<now, selVars, cfgVars, stateVars, srvVars, loopVars, memVars, auxVars>>

(***************************************************************************)
(* State (framework/state.py)                                              *)
(***************************************************************************)
Min(a, b) == IF a < b THEN a ELSE b
Max(a, b) == IF a > b THEN a ELSE b

update_energy_uncapped(e, last, t) ==
  IF last # NoTime THEN e + (t - last) * RecoveryPerHour ELSE e

\* State.update, energy part: recovery since last_activity_timestamp, min(1.0, .)
update_energy(e, last, t) ==
  IF last # NoTime THEN Min(EnergyMax, e + (t - last) * RecoveryPerHour) ELSE e

update_timestamp_every_tick(last, completed, t) == t

\* State.update, timestamp part: committed only when a completion is pending
update_timestamp(last, completed, t) == IF completed THEN t ELSE last

\* State.consume_energy: max(0.0, energy - amount)
consume_energy(e, amount) == Max(0, e - amount)

\* State.save: json.dump(current_state) into the state file
save(e, last) == [exists |-> TRUE, energy |-> e, last_activity_timestamp |-> last]

(***************************************************************************)
(* ActivitySelector (framework/activity_selector.py)                       *)
(***************************************************************************)
\* step 1 of _get_available_activities: skip if disabled in the selector's constraints
is_enabled(a) == constraints[a]

on_cooldown_late(a) ==
  /\ last_activity_times[a] # NoTime
  /\ now - last_activity_times[a] < cooldown[a] - 1

\* step 2 of _get_available_activities: time_since_last < cooldown
on_cooldown(a) ==
  /\ last_activity_times[a] # NoTime
  /\ now - last_activity_times[a] < cooldown[a]

\* _get_available_activities: enabled, off cooldown and instantiable
get_available_activities(inst_fail) ==
  {a \in Activities : is_enabled(a) /\ ~on_cooldown(a) /\ a \notin inst_fail}

check_energy_requirements_reversed(a) == energy_cost[a] >= energy

\* _check_energy_requirements: current_energy >= required_energy
check_energy_requirements(a) == energy >= energy_cost[a]

\* _check_activity_requirements: accepts all
check_activity_requirements(a) == TRUE

\* step 2 of select_next_activity
suitable_activities(inst_fail) ==
  {a \in get_available_activities(inst_fail) :
     check_energy_requirements(a) /\ check_activity_requirements(a)}

\* the order in which the loader's dictionary lists the activities
all_activities == <<"a1", "a2">>

\* next_available_at of an activity that never ran: the string "Now"
AvailableNow == 0 - 3

\* time_remaining = max(0, cooldown - time_since_last)
time_remaining(a) == Max(0, cooldown[a] - (now - last_activity_times[a]))

\* the entry get_next_available_times appends for one activity
next_available_entry(a) ==
  IF last_activity_times[a] # NoTime
  THEN [activity |-> a, available_in_seconds |-> time_remaining(a),
        next_available_at |-> now + time_remaining(a), cooldown_period |-> cooldown[a]]
  ELSE [activity |-> a, available_in_seconds |-> 0,
        next_available_at |-> AvailableNow, cooldown_period |-> cooldown[a]]

\* insertion into a list ascending by available_in_seconds, after equal keys
RECURSIVE InsertSoonest(_, _)
InsertSoonest(e, sorted) ==
  IF sorted = <<>> THEN <<e>>
  ELSE IF e.available_in_seconds < Head(sorted).available_in_seconds
       THEN <<e>> \o sorted
       ELSE <<Head(sorted)>> \o InsertSoonest(e, Tail(sorted))

\* sorted(next_available, key=available_in_seconds)
RECURSIVE sorted_soonest(_)
sorted_soonest(seq) ==
  IF seq = <<>> THEN <<>>
  ELSE InsertSoonest(seq[Len(seq)], sorted_soonest(SubSeq(seq, 1, Len(seq) - 1)))

\* get_next_available_times: one entry per loaded activity, soonest first
get_next_available_times ==
  sorted_soonest([i \in 1..Len(all_activities) |-> next_available_entry(all_activities[i])])

(***************************************************************************)
(* _select_based_on_personality.  Personality values are in halves, the    *)
(* factors are whole numbers, and a weight is in quarters.                 *)
(***************************************************************************)
\* creativity pairs with creativity_factor, friendliness with social_factor
Traits == {"creativity", "friendliness"}

\* a key absent from the personality, an attribute the activity does not have
Missing == 0 - 4

\* personality.get(trait, 0.5)
DefaultTrait == 1
personality_get(pers, trait) == IF pers[trait] = Missing THEN DefaultTrait ELSE pers[trait]

\* 1 + personality.get(trait, 0.5) * factor when the activity has the factor
affinity(pers, fac, trait) ==
  IF fac[trait] = Missing THEN 2 ELSE 2 + personality_get(pers, trait) * fac[trait]

\* weight = 1.0, multiplied by the affinity of each declared factor
weight(pers, fac) == affinity(pers, fac, "creativity") * affinity(pers, fac, "friendliness")

\* the candidates in the order of the loader's dictionary
RECURSIVE in_order(_, _)
in_order(seq, set) ==
  IF seq = <<>> THEN <<>>
  ELSE IF Head(seq) \in set THEN <<Head(seq)>> \o in_order(Tail(seq), set)
       ELSE in_order(Tail(seq), set)

\* itertools.accumulate(weights)
RECURSIVE accumulate(_)
accumulate(ws) ==
  IF ws = <<>> THEN <<>>
  ELSE LET front == accumulate(SubSeq(ws, 1, Len(ws) - 1))
       IN Append(front, (IF front = <<>> THEN 0 ELSE front[Len(front)]) + ws[Len(ws)])

bisect_left(cum, x) ==
  IF \E i \in 1..Len(cum) : cum[i] >= x
  THEN CHOOSE i \in 1..Len(cum) : cum[i] >= x /\ \A j \in 1..(i - 1) : cum[j] < x
  ELSE Len(cum)

\* bisect(cum_weights, x, 0, n - 1): the first index whose cumulative weight
\* exceeds x, the last index when there is none
bisect(cum, x) ==
  IF \E i \in 1..Len(cum) : cum[i] > x
  THEN CHOOSE i \in 1..Len(cum) : cum[i] > x /\ \A j \in 1..(i - 1) : cum[j] <= x
  ELSE Len(cum)

\* random.choices(activities, weights=weights, k=1)[0]; random() * total lies
\* in [ticket, ticket + 1) for one ticket of 0..total-1
choices(population, ws, ticket) == population[bisect(accumulate(ws), ticket)]

\* the total of the weights
total_weight(ws) == IF ws = <<>> THEN 0 ELSE accumulate(ws)[Len(ws)]

(***************************************************************************)
(* DigitalBeing.execute_activity (framework/main.py) and the wrapper of    *)
(* the @activity decorator                                                 *)
(***************************************************************************)
ExceptionMessage == "exception message"
Outcomes == {"success", "failure", "raise"}

\* ActivityResult.to_dict of a result without data and metadata
Result(success, error) ==
  [success |-> success, error |-> error, data |-> "empty_dict", metadata |-> "dict"]

activity_result_swallowed(outcome) ==
  CASE outcome = "success" -> Result(TRUE, None)
    [] outcome = "failure" -> Result(FALSE, "failed")
    [] OTHER -> Result(TRUE, None)

\* The ActivityResult execute_activity ends with: the activity's own result,
\* or ActivityResult(success=False, error=str(e)) when execute raised (built by
\* wrapped_execute for a decorated class, by the except branch otherwise)
activity_result(outcome) ==
  CASE outcome = "success" -> Result(TRUE, None)
    [] outcome = "failure" -> Result(FALSE, "failed")
    [] OTHER -> Result(FALSE, ExceptionMessage)

(***************************************************************************)
(* Memory (framework/memory.py)                                            *)
(***************************************************************************)
ShortTermLimit == 100
KeepRecent == 50

MemoryObjects == {"being", "activity"}
EntryTypes == Activities \cup {"UserChatMessage"}
ChatTypes == {"UserChatMessage", "ReplyToChatActivity"}

\* payloads: an empty dict, a dict of strings carrying sender and message, and
\* (metadata of DrawActivity) a dict holding the tuple (1024, 1024)
DataValues == {"empty_dict", "chat_dict"}
MetadataValues == {"dict", "dict_with_tuple"}

\* json.dump of a payload: tuples and lists both become JSON arrays
json_dump_value(v) ==
  IF v \in {"dict_with_tuple", "dict_with_list"} THEN "object_with_array" ELSE "object"

\* json.load of a payload: a JSON array becomes a list
json_load_value(j) ==
  IF j = "object_with_array" THEN "dict_with_list" ELSE "dict"

\* json.dump / json.load of the data payload, a dict of strings
json_dump_data(v) == IF v = "chat_dict" THEN "object_of_strings" ELSE "object_empty"
json_load_data(j) == IF j = "object_of_strings" THEN "chat_dict" ELSE "empty_dict"

json_dump_entry(e) ==
  [e EXCEPT !.data = json_dump_data(@), !.metadata = json_dump_value(@)]
json_load_entry(j) ==
  [j EXCEPT !.data = json_load_data(@), !.metadata = json_load_value(@)]

json_dump_entries(seq) == [i \in 1..Len(seq) |-> json_dump_entry(seq[i])]
json_load_entries(seq) == [i \in 1..Len(seq) |-> json_load_entry(seq[i])]

EmptyMemory ==
  [short_term |-> <<>>, long_term |-> [t \in EntryTypes |-> <<>>], chat_log |-> <<>>]

\* files of the storage directory
memory_file == "memory.json"
temp_file_in_place == "memory.json"
\* temp_file = self.memory_file.with_suffix(".json.tmp")
temp_file == "memory.json.tmp"
backup_path == "memory.json.bak"
MemoryPaths == {"memory.json", "memory.json.tmp", "memory.json.bak"}

\* file contents: absent, a complete JSON document, a truncated document
\* (partial), text that is not JSON (garbage), JSON that is not an object
Absent == [kind |-> "absent", doc |-> EmptyMemory]
Garbage == [kind |-> "garbage", doc |-> EmptyMemory]
JsonList == [kind |-> "json_list", doc |-> EmptyMemory]
Truncated(doc) == [kind |-> "partial", doc |-> doc]

\* json.dump(memory_data, f, indent=2), complete
json_dump(mem) ==
  [kind |-> "json",
   doc |-> [short_term |-> json_dump_entries(mem.short_term),
            long_term |-> [t \in EntryTypes |-> json_dump_entries(mem.long_term[t])],
            chat_log |-> mem.chat_log]]

\* json.load(f) followed by the data.get(...) of _load_memory
json_load(content) ==
  [short_term |-> json_load_entries(content.doc.short_term),
   long_term |-> [t \in EntryTypes |-> json_load_entries(content.doc.long_term[t])],
   chat_log |-> content.doc.chat_log]

\* the entry store_activity_result appends to short-term memory
memory_entry(type, result) ==
  [timestamp |-> now, activity_type |-> type,
   success |-> result.success, error |-> result.error,
   data |-> result.data, metadata |-> result.metadata]

\* the chat entry store_activity_result appends for a conversational type
chat_entry(result) ==
  [timestamp |-> now,
   sender |-> IF result.data = "chat_dict" THEN "User" ELSE "unknown",
   message |-> IF result.data = "chat_dict" THEN "hello" ELSE ""]

\* _consolidate_memory: above 100 entries keep the last 50, move the others
consolidate_memory(mem) ==
  IF Len(mem.short_term) > ShortTermLimit
  THEN LET n == Len(mem.short_term)
           older == SubSeq(mem.short_term, 1, n - KeepRecent)
       IN [mem EXCEPT
             !.short_term = SubSeq(mem.short_term, n - KeepRecent + 1, n),
             !.long_term = [t \in EntryTypes |->
                 mem.long_term[t] \o SelectSeq(older, LAMBDA e : e.activity_type = t)]]
  ELSE mem

\* store_activity_result without the chat projection
store_activity_result_unprojected(mem, type, result) ==
  consolidate_memory(
    [mem EXCEPT !.short_term = Append(@, memory_entry(type, result))])

\* store_activity_result up to its persist: chat projection, append, consolidate
store_activity_result(mem, type, result) ==
  LET with_chat == IF type \in ChatTypes /\ result.data # "empty_dict"
                   THEN [mem EXCEPT !.chat_log = Append(@, chat_entry(result))]
                   ELSE mem
  IN consolidate_memory(
       [with_chat EXCEPT !.short_term = Append(@, memory_entry(type, result))])

\* history: the copies of the entries of a memory, the payload representation
\* left aside; an entry of long-term storage counts under its own type only
entry_key(e) == [timestamp |-> e.timestamp, activity_type |-> e.activity_type,
                 success |-> e.success, error |-> e.error]
Occurrences(k, seq) == Cardinality({i \in 1..Len(seq) : entry_key(seq[i]) = k})
Count(k, mem) ==
  Occurrences(k, mem.short_term) + Occurrences(k, mem.long_term[k.activity_type])
Keys(mem) ==
  {entry_key(mem.short_term[i]) : i \in 1..Len(mem.short_term)} \cup
  UNION {{entry_key(mem.long_term[t][i]) : i \in 1..Len(mem.long_term[t])} :
           t \in EntryTypes}
Copies(mem) == UNION {{<<k, n>> : n \in 1..Count(k, mem)} : k \in Keys(mem)}

\* a persist() that runs to its end: dump to the temporary file, replace
persist_files(f, mem) ==
  [f EXCEPT ![temp_file] = Absent, ![memory_file] = json_dump(mem)]

Idle == [obj |-> None, step |-> "idle"]

\* persist() of object o, not interrupted
PersistAtomic(o) ==
  /\ files' = persist_files(files, memory'[o])
  /\ file_before' = Absent
  /\ durable_log' = durable_log \cup Copies(memory'[o])
  /\ persisted_by' = o
  /\ persisting' = Idle
  /\ UNCHANGED opened

(***************************************************************************)
(* DigitalBeingServer._run_being_loop (server.py).  One action is the code *)
(* the loop task runs between two suspension points; tasks that only read  *)
(* (the periodic status broadcast) are stuttering steps.                   *)
(***************************************************************************)
\* self.being.state.update(); self.being.memory.persist(); await asyncio.sleep(5)
TickAndSleep ==
  /\ energy' = update_energy(energy, last_activity_timestamp, now)
  /\ last_activity_timestamp' =
       update_timestamp(last_activity_timestamp, last_completed_activity, now)
  /\ last_completed_activity' = FALSE
  /\ state_file' = save(energy', last_activity_timestamp')
  /\ UNCHANGED <<memory, stores>>
  /\ PersistAtomic("being")
  /\ pc' = "sleep"

LoopIdleSelects ==
  /\ pc = "top"
  /\ ~running \/ paused \/ ~configured
  /\ \E a \in Activities : last_activity_times' = [last_activity_times EXCEPT ![a] = now]
  /\ pc' = "sleep"
  /\ UNCHANGED <<constraints, returned_at>>
  /\ UNCHANGED <<current_activity, executing, raised, energy_at_selection>>
  /\ UNCHANGED <<now, cfgVars, stateVars, srvVars, memVars>>
  /\ UNCHANGED auxVars

\* Idle iteration: not running, paused or not configured
LoopIdle ==
  /\ pc = "top"
  /\ ~running \/ paused \/ ~configured
  /\ pc' = "sleep"
  /\ UNCHANGED <<current_activity, executing, raised, energy_at_selection>>
  /\ UNCHANGED <<now, selVars, cfgVars, stateVars, srvVars, memVars>>
  /\ UNCHANGED auxVars

\* Running iteration in which select_next_activity returns None
LoopNoActivity ==
  /\ pc = "top"
  /\ running /\ ~paused /\ configured
  /\ \E inst_fail \in SUBSET Activities :
       suitable_activities(inst_fail) = {}
  /\ current_activity' = None
  /\ TickAndSleep
  /\ raised' = FALSE
  /\ UNCHANGED <<executing, energy_at_selection>>
  /\ UNCHANGED <<now, selVars, cfgVars, srvVars>>
  /\ UNCHANGED auxVars

LoopDispatchNoAwait ==
  /\ pc = "top"
  /\ running /\ ~paused /\ configured
  /\ Len(memory["being"].short_term) < MaxRecords
  /\ \E inst_fail \in SUBSET Activities :
       \E a \in suitable_activities(inst_fail) :
         /\ last_activity_times' = [last_activity_times EXCEPT ![a] = now]
         /\ returned_at' = [returned_at EXCEPT ![a] = now]
         /\ current_activity' = a
         /\ executing' = executing \cup {a}
  /\ pc' = "broadcast"
  /\ raised' = FALSE
  /\ energy_at_selection' = energy
  /\ UNCHANGED constraints
  /\ UNCHANGED <<now, cfgVars, stateVars, srvVars, memVars>>
  /\ UNCHANGED auxVars

\* Running iteration in which select_next_activity returns an activity: the
\* timer is stamped and the loop suspends in "await execute_activity(...)"
LoopDispatch ==
  /\ pc = "top"
  /\ running /\ ~paused /\ configured
  /\ Len(memory["being"].short_term) < MaxRecords
  /\ \E inst_fail \in SUBSET Activities :
       \E a \in suitable_activities(inst_fail) :
         /\ last_activity_times' = [last_activity_times EXCEPT ![a] = now]
         /\ returned_at' = [returned_at EXCEPT ![a] = now]
         /\ current_activity' = a
         /\ executing' = executing \cup {a}
  /\ pc' = "await"
  /\ raised' = FALSE
  /\ energy_at_selection' = energy
  /\ UNCHANGED constraints
  /\ UNCHANGED <<now, cfgVars, stateVars, srvVars, memVars>>
  /\ UNCHANGED auxVars

ExecuteReturnsStamps ==
  /\ pc = "await"
  /\ \E outcome \in Outcomes :
       LET result == activity_result(outcome) IN
       /\ memory' = [memory EXCEPT !["being"] =
            store_activity_result(@, current_activity, result)]
       /\ last_completed_activity' =
            (IF result.success THEN TRUE ELSE last_completed_activity)
       /\ state_file' =
            (IF result.success THEN save(energy, last_activity_timestamp) ELSE state_file)
       /\ raised' = (outcome = "raise")
  /\ stores' = stores + 1
  /\ PersistAtomic("being")
  /\ executing' = executing \ {current_activity}
  /\ last_activity_times' = [last_activity_times EXCEPT ![current_activity] = now]
  /\ pc' = "broadcast"
  /\ UNCHANGED <<current_activity, energy, last_activity_timestamp, energy_at_selection>>
  /\ UNCHANGED <<now, constraints, returned_at, cfgVars, srvVars>>
  /\ UNCHANGED auxVars

\* activity.execute returns or raises; execute_activity records the result and,
\* on success, calls record_activity_completion
ExecuteReturns ==
  /\ pc = "await"
  /\ \E outcome \in Outcomes :
       LET result == activity_result(outcome) IN
       /\ memory' = [memory EXCEPT !["being"] =
            store_activity_result(@, current_activity, result)]
       /\ last_completed_activity' =
            (IF result.success THEN TRUE ELSE last_completed_activity)
       /\ state_file' =
            (IF result.success THEN save(energy, last_activity_timestamp) ELSE state_file)
       /\ raised' = (outcome = "raise")
  /\ stores' = stores + 1
  /\ PersistAtomic("being")
  /\ executing' = executing \ {current_activity}
  /\ pc' = "broadcast"
  /\ UNCHANGED <<current_activity, energy, last_activity_timestamp, energy_at_selection>>
  /\ UNCHANGED <<now, selVars, cfgVars, srvVars>>
  /\ UNCHANGED auxVars

\* after "await self.broadcast_state()": update, persist, sleep
LoopTick ==
  /\ pc = "broadcast"
  /\ TickAndSleep
  /\ energy_at_selection' = NoTime
  /\ UNCHANGED <<current_activity, executing, raised>>
  /\ UNCHANGED <<now, selVars, cfgVars, srvVars>>
  /\ UNCHANGED auxVars

\* asyncio.sleep returns
LoopWake ==
  /\ pc = "sleep"
  /\ pc' = "top"
  /\ UNCHANGED <<current_activity, executing, raised, energy_at_selection>>
  /\ UNCHANGED <<now, selVars, cfgVars, stateVars, srvVars, memVars>>
  /\ UNCHANGED auxVars

(***************************************************************************)
(* WebSocket command handlers (DigitalBeingServer.handle_command)          *)
(***************************************************************************)
CommandPause ==
  /\ ~paused
  /\ paused' = TRUE
  /\ UNCHANGED <<running, now, selVars, cfgVars, stateVars, loopVars, memVars>>
  /\ UNCHANGED auxVars

CommandResume ==
  /\ paused
  /\ paused' = FALSE
  /\ UNCHANGED <<running, now, selVars, cfgVars, stateVars, loopVars, memVars>>
  /\ UNCHANGED auxVars

\* stop_loop
CommandStopLoop ==
  /\ running
  /\ running' = FALSE
  /\ UNCHANGED <<paused, now, selVars, cfgVars, stateVars, loopVars, memVars>>
  /\ UNCHANGED auxVars

\* start_loop
CommandStartLoop ==
  /\ ~running
  /\ running' = TRUE
  /\ UNCHANGED <<paused, now, selVars, cfgVars, stateVars, loopVars, memVars>>
  /\ UNCHANGED auxVars

\* update_config on activity_constraints: the write goes to being.configs, the
\* dictionaries loaded by DigitalBeing.initialize
CommandUpdateConfig ==
  /\ \E a \in Activities, flag \in BOOLEAN :
       /\ configs[a] # flag
       /\ configs' = [configs EXCEPT ![a] = flag]
  /\ UNCHANGED <<configured, now, selVars, stateVars, srvVars, loopVars, memVars>>
  /\ UNCHANGED auxVars

\* save_onboarding_data sets setup_complete
CommandSaveOnboarding ==
  /\ ~configured
  /\ configured' = TRUE
  /\ UNCHANGED <<configs, now, selVars, stateVars, srvVars, loopVars, memVars>>
  /\ UNCHANGED auxVars

\* the wall clock advances
ClockAdvance ==
  /\ now < MaxTime
  /\ now' = now + 1
  /\ UNCHANGED <<selVars, cfgVars, stateVars, srvVars, loopVars, memVars>>
  /\ UNCHANGED auxVars

(***************************************************************************)
(* SharedData (framework/shared_data.py), called from several threads      *)
(***************************************************************************)
Threads == {"t1", "t2"}
\* the categories initialize creates (two of system, memory, state, temp)
Categories == {"system", "temp"}
\* a category no initialize creates (NapActivity writes to it)
UnknownCategory == "body_state"
SdKeys == {"k1", "k2"}
NoValue == 0
\* the value thread t writes
value_of(t) == IF t = "t1" THEN 1 ELSE 2
SdValues == {NoValue, 1, 2}

WriteOps == {"set", "update", "delete", "clear_category"}
ReadOps == {"get", "get_category_data", "exists"}
SdOps == WriteOps \cup ReadOps

EmptyCategory == [k \in SdKeys |-> NoValue]
SdIdle == [pc |-> "idle", op |-> "none", category |-> "none",
           keys |-> {}, ret |-> "none"]

\* "category not in self._data" is false
recognised(category) == sd_initialized /\ category \in Categories

soft_value_true(op) ==
  CASE op = "get" -> "default"
    [] op = "get_category_data" -> "empty_map"
    [] OTHER -> "True"

\* what an operation returns for a category that is not in _data
soft_value(op) ==
  CASE op = "get" -> "default"
    [] op = "get_category_data" -> "empty_map"
    [] OTHER -> "False"

\* the lock an operation on a category takes: self._locks[category]
lock_of(category) == category

lock_free_always(category) == TRUE

\* Lock.acquire returns only when no thread holds the lock
lock_free(category) == sd_locks[lock_of(category)] = None

\* the effect of a whole write operation on the content of its category
apply_write(content, op, keys, v) ==
  CASE op = "set" -> [k \in SdKeys |-> IF k \in keys THEN v ELSE content[k]]
    [] op = "update" -> [k \in SdKeys |-> IF k \in keys THEN v ELSE content[k]]
    [] op = "delete" -> [k \in SdKeys |-> IF k \in keys THEN NoValue ELSE content[k]]
    [] op = "clear_category" -> EmptyCategory
    [] OTHER -> content

\* the key arguments of an operation: one key, a non-empty map of updates, none
key_arguments(op) ==
  CASE op \in {"set", "delete", "get", "exists"} -> {{k} : k \in SdKeys}
    [] op = "update" -> (SUBSET SdKeys) \ {{}}
    [] OTHER -> {{}}

InitSharedData ==
  /\ sd_initialized = FALSE
  /\ sd_data = [c \in Categories |-> EmptyCategory]
  /\ sd_locks = [c \in Categories |-> None]
  /\ sd_thread = [t \in Threads |-> SdIdle]
  /\ sd_expected = [c \in Categories |-> EmptyCategory]

\* SharedData.initialize
SdInitialize ==
  /\ ~sd_initialized
  /\ sd_initialized' = TRUE
  /\ sd_data' = [c \in Categories |-> EmptyCategory]
  /\ sd_locks' = [c \in Categories |-> None]
  /\ UNCHANGED <<sd_thread, sd_expected>>
  /\ UNCHANGED <<recent, callVars, bcVars, diagVars, obsVars, ldVars, refVars, runVars, now, selVars, cfgVars, stateVars, srvVars, loopVars, memVars>>

\* a thread calls an operation: the membership test and, for a category that
\* is not in _data, the return
SdCall(t) ==
  /\ sd_thread[t].pc = "idle"
  /\ \E op \in SdOps, category \in Categories \cup {UnknownCategory} :
       \E keys \in key_arguments(op) :
         sd_thread' = [sd_thread EXCEPT ![t] =
           IF recognised(category)
           THEN [pc |-> "lock", op |-> op, category |-> category,
                 keys |-> keys, ret |-> "none"]
           ELSE [pc |-> "done", op |-> op, category |-> category,
                 keys |-> keys, ret |-> soft_value(op)]]
  /\ UNCHANGED <<sd_initialized, sd_data, sd_locks, sd_expected>>
  /\ UNCHANGED <<recent, callVars, bcVars, diagVars, obsVars, ldVars, refVars, runVars, now, selVars, cfgVars, stateVars, srvVars, loopVars, memVars>>

\* "with self._locks[category]:" is entered
SdAcquire(t) ==
  /\ sd_thread[t].pc = "lock"
  /\ lock_free(sd_thread[t].category)
  /\ sd_locks' = [sd_locks EXCEPT ![lock_of(sd_thread[t].category)] = t]
  /\ sd_thread' = [sd_thread EXCEPT ![t].pc = "body"]
  /\ sd_expected' = [sd_expected EXCEPT ![sd_thread[t].category] =
       apply_write(@, sd_thread[t].op, sd_thread[t].keys, value_of(t))]
  /\ UNCHANGED <<sd_initialized, sd_data>>
  /\ UNCHANGED <<recent, callVars, bcVars, diagVars, obsVars, ldVars, refVars, runVars, now, selVars, cfgVars, stateVars, srvVars, loopVars, memVars>>

\* one step of the body: a key is written or deleted, the category is cleared,
\* a value is read
SdBody(t) ==
  /\ sd_thread[t].pc = "body"
  /\ LET c == sd_thread[t].category
         op == sd_thread[t].op
     IN CASE op \in {"set", "update"} ->
               \E k \in sd_thread[t].keys :
                 /\ sd_data' = [sd_data EXCEPT ![c][k] = value_of(t)]
                 /\ sd_thread' = [sd_thread EXCEPT
                      ![t].keys = @ \ {k},
                      ![t].pc = IF sd_thread[t].keys = {k} THEN "unlock" ELSE "body",
                      ![t].ret = "True"]
          [] op = "delete" ->
               \E k \in sd_thread[t].keys :
                 /\ sd_data' = [sd_data EXCEPT ![c][k] = NoValue]
                 /\ sd_thread' = [sd_thread EXCEPT
                      ![t].pc = "unlock",
                      ![t].ret = IF sd_data[c][k] # NoValue THEN "True" ELSE "False"]
          [] op = "clear_category" ->
               /\ sd_data' = [sd_data EXCEPT ![c] = EmptyCategory]
               /\ sd_thread' = [sd_thread EXCEPT ![t].pc = "unlock", ![t].ret = "True"]
          [] op = "get" ->
               \E k \in sd_thread[t].keys :
                 /\ sd_thread' = [sd_thread EXCEPT ![t].pc = "unlock",
                      ![t].ret = IF sd_data[c][k] # NoValue THEN "value" ELSE "default"]
                 /\ UNCHANGED sd_data
          [] op = "exists" ->
               \E k \in sd_thread[t].keys :
                 /\ sd_thread' = [sd_thread EXCEPT ![t].pc = "unlock",
                      ![t].ret = IF sd_data[c][k] # NoValue THEN "True" ELSE "False"]
                 /\ UNCHANGED sd_data
          [] OTHER ->
               /\ sd_thread' = [sd_thread EXCEPT ![t].pc = "unlock", ![t].ret = "copy"]
               /\ UNCHANGED sd_data
  /\ UNCHANGED <<sd_initialized, sd_locks, sd_expected>>
  /\ UNCHANGED <<recent, callVars, bcVars, diagVars, obsVars, ldVars, refVars, runVars, now, selVars, cfgVars, stateVars, srvVars, loopVars, memVars>>

\* the with block is left: the lock is released
SdRelease(t) ==
  /\ sd_thread[t].pc = "unlock"
  /\ sd_locks' = [sd_locks EXCEPT ![lock_of(sd_thread[t].category)] = None]
  /\ sd_thread' = [sd_thread EXCEPT ![t].pc = "done"]
  /\ UNCHANGED <<sd_initialized, sd_data, sd_expected>>
  /\ UNCHANGED <<recent, callVars, bcVars, diagVars, obsVars, ldVars, refVars, runVars, now, selVars, cfgVars, stateVars, srvVars, loopVars, memVars>>

\* the operation returns to its caller
SdReturn(t) ==
  /\ sd_thread[t].pc = "done"
  /\ sd_thread' = [sd_thread EXCEPT ![t] = SdIdle]
  /\ UNCHANGED <<sd_initialized, sd_data, sd_locks, sd_expected>>
  /\ UNCHANGED <<recent, callVars, bcVars, diagVars, obsVars, ldVars, refVars, runVars, now, selVars, cfgVars, stateVars, srvVars, loopVars, memVars>>

(***************************************************************************)
(* Values handed out by the read operations.  The values stored in the     *)
(* workspace and the personality map and active_tasks list of the state    *)
(* are mutable objects; a variable or a dict entry holds a reference.      *)
(***************************************************************************)
ObjIds == {"obj1", "obj2", "personality", "active_tasks"}
\* the object a workspace value refers to
ref_of(v) == IF v = 1 THEN "obj1" ELSE "obj2"

NothingHanded ==
  [kind |-> "none", ref |-> "none", copy |-> EmptyCategory,
   state |-> [energy |-> 0, personality |-> "none", active_tasks |-> "none"]]

InitObjects ==
  /\ heap = [x \in ObjIds |-> "original"]
  /\ handed = NothingHanded

\* State.current_state as a dict: scalars by value, nested objects by reference
current_state ==
  [energy |-> energy, personality |-> "personality", active_tasks |-> "active_tasks"]

\* dict.copy(): a new dict holding the same references
dict_copy(d) == d

\* the content of the workspace and of the state, nested objects included
WorkspaceContent ==
  [c \in Categories |-> [k \in SdKeys |->
     IF sd_data[c][k] = NoValue THEN "absent" ELSE heap[ref_of(sd_data[c][k])]]]
StateContent ==
  [energy |-> energy, personality |-> heap[current_state.personality],
   active_tasks |-> heap[current_state.active_tasks]]

\* SharedData.set by a single caller, as a whole
RefSet ==
  /\ sd_initialized
  /\ \E c \in Categories, k \in SdKeys, v \in {1, 2} :
       sd_data' = [sd_data EXCEPT ![c] = apply_write(@, "set", {k}, v)]
  /\ sd_expected' = sd_data'
  /\ UNCHANGED <<sd_initialized, sd_locks, sd_thread, recent, callVars, bcVars, diagVars, obsVars, ldVars, refVars, runVars>>
  /\ UNCHANGED <<now, selVars, cfgVars, stateVars, srvVars, loopVars, memVars>>

\* SharedData.get: self._data[category].get(key, default)
RefGet ==
  /\ sd_initialized
  /\ \E c \in Categories, k \in SdKeys :
       handed' = IF sd_data[c][k] = NoValue
                 THEN [NothingHanded EXCEPT !.kind = "default"]
                 ELSE [NothingHanded EXCEPT !.kind = "value",
                                            !.ref = ref_of(sd_data[c][k])]
  /\ UNCHANGED <<heap, recent, callVars, bcVars, diagVars, obsVars, ldVars, sdVars, runVars>>
  /\ UNCHANGED <<now, selVars, cfgVars, stateVars, srvVars, loopVars, memVars>>

\* SharedData.get_category_data: self._data[category].copy()
RefGetCategoryData ==
  /\ sd_initialized
  /\ \E c \in Categories :
       handed' = [NothingHanded EXCEPT !.kind = "category",
                                       !.copy = dict_copy(sd_data[c])]
  /\ UNCHANGED <<heap, recent, callVars, bcVars, diagVars, obsVars, ldVars, sdVars, runVars>>
  /\ UNCHANGED <<now, selVars, cfgVars, stateVars, srvVars, loopVars, memVars>>

\* State.get_current_state: self.current_state.copy()
RefGetCurrentState ==
  /\ handed' = [NothingHanded EXCEPT !.kind = "state",
                                     !.state = dict_copy(current_state)]
  /\ UNCHANGED <<heap, recent, callVars, bcVars, diagVars, obsVars, ldVars, sdVars, runVars>>
  /\ UNCHANGED <<now, selVars, cfgVars, stateVars, srvVars, loopVars, memVars>>

\* the caller assigns to or deletes an entry of the dict it was handed
CallerWritesEntry ==
  /\ \/ /\ handed.kind = "category"
        /\ \E k \in SdKeys, v \in SdValues :
             /\ handed.copy[k] # v
             /\ handed' = [handed EXCEPT !.copy[k] = v]
     \/ /\ handed.kind = "state"
        /\ handed.state.energy # 0
        /\ handed' = [handed EXCEPT !.state.energy = 0]
  /\ UNCHANGED <<heap, recent, callVars, bcVars, diagVars, obsVars, ldVars, sdVars, runVars>>
  /\ UNCHANGED <<now, selVars, cfgVars, stateVars, srvVars, loopVars, memVars>>

\* the caller mutates an object it reaches through what it was handed: the
\* value itself, a value of the category dict, the personality map or the
\* active_tasks list
CallerMutatesObject ==
  /\ \E x \in ObjIds :
       /\ \/ handed.kind = "value" /\ x = handed.ref
          \/ /\ handed.kind = "category"
             /\ \E k \in SdKeys : handed.copy[k] # NoValue /\ x = ref_of(handed.copy[k])
          \/ /\ handed.kind = "state"
             /\ x \in {handed.state.personality, handed.state.active_tasks}
       /\ heap[x] = "original"
       /\ heap' = [heap EXCEPT ![x] = "mutated"]
  /\ UNCHANGED <<handed, recent, callVars, bcVars, diagVars, obsVars, ldVars, sdVars, runVars>>
  /\ UNCHANGED <<now, selVars, cfgVars, stateVars, srvVars, loopVars, memVars>>

\* no draw has been made; a being with no personality configured and
\* activities that declare no affinity
NoDraw == [called |-> FALSE, candidates |-> <<>>, weights |-> <<>>, ticket |-> 0, chosen |-> None]
\* execute has not been called
NoCheck == [called |-> FALSE, success |-> FALSE, data |-> <<>>]
InitObserved ==
  /\ personality = [trait \in Traits |-> Missing]
  /\ factors = [a \in Activities |-> [trait \in Traits |-> Missing]]
  /\ drawn = NoDraw
  /\ checked = NoCheck

\* no read operation has been called
NoCall == [called |-> FALSE, limit |-> 0, offset |-> 0, result |-> <<>>]
\* no broadcast under way; no tick made in this iteration
NoBroadcast == [size |-> 0, left |-> 0]
NoTick == [update |-> 0, persist |-> 0]

InitCalls ==
  /\ recent = NoCall
  /\ state_call = None
  /\ gained = 0
  /\ clients = 0
  /\ broadcast = NoBroadcast
  /\ tick_calls = NoTick
  /\ next_available = <<>>
  /\ InitSharedData
  /\ InitObjects
  /\ cleanup_attempted = FALSE
  /\ io_failed = FALSE

\* DigitalBeing.initialize has attached the loader to the selector
InitLoader ==
  /\ activity_loader = TRUE
  /\ failed = {}

InitAux ==
  /\ InitCalls
  /\ InitObserved
  /\ InitLoader

\* energy values found in the state file at startup
InitEnergies == {2, EnergyMax}
\* activities_config found in activity_constraints.json at startup
InitConfigs == {[a \in Activities |-> TRUE], [a \in Activities |-> a # "a2"]}

\* DigitalBeing.__init__ hands the selector the constraints loaded by its own
\* _load_configs; DigitalBeing.initialize then loads being.configs afresh
Init ==
  /\ now = 0
  /\ last_activity_times = [a \in Activities |-> NoTime]
  /\ returned_at = [a \in Activities |-> NoTime]
  /\ constraints \in InitConfigs
  /\ configs = constraints
  /\ configured \in BOOLEAN
  /\ energy \in InitEnergies
  /\ last_activity_timestamp = NoTime
  /\ last_completed_activity = FALSE
  /\ running = TRUE
  /\ paused = FALSE
  /\ pc = "top"
  /\ current_activity = None
  /\ executing = {}
  /\ raised = FALSE
  /\ energy_at_selection = NoTime
  /\ state_file = save(energy, last_activity_timestamp)
  /\ memory = [o \in MemoryObjects |-> EmptyMemory]
  /\ files = [p \in MemoryPaths |-> Absent]
  /\ persisting = Idle
  /\ file_before = Absent
  /\ durable_log = {}
  /\ persisted_by = None
  /\ opened = {"being"}
  /\ stores = 0
  /\ InitAux

Next ==
  \/ LoopIdle
  \/ LoopNoActivity
  \/ LoopDispatch
  \/ ExecuteReturns
  \/ LoopTick
  \/ LoopWake
  \/ CommandPause
  \/ CommandResume
  \/ CommandUpdateConfig
  \/ CommandSaveOnboarding
  \/ ClockAdvance

Spec == Init /\ [][Next]_vars

(***************************************************************************)
(* The State object driven through its public operations                   *)
(***************************************************************************)
\* amounts passed to consume_energy(amount: float)
Amounts == (0 - MaxAmount)..MaxAmount

\* State.consume_energy(amount)
StateConsumeEnergy ==
  /\ \E amount \in Amounts :
       /\ consume_energy(energy, amount) <= 2 * EnergyMax
       /\ energy' = consume_energy(energy, amount)
  /\ state_file' = save(energy', last_activity_timestamp)
  /\ state_call' = "consume_energy"
  /\ UNCHANGED <<last_activity_timestamp, last_completed_activity, gained>>
  /\ UNCHANGED <<now, selVars, cfgVars, srvVars, loopVars, memVars>>
  /\ UNCHANGED <<recent, diagVars, obsVars, ldVars, bcVars, sdVars, refVars, runVars>>

\* State.update()
StateUpdate ==
  /\ update_energy(energy, last_activity_timestamp, now) >= 0 - 2 * EnergyMax
  /\ energy' = update_energy(energy, last_activity_timestamp, now)
  /\ last_activity_timestamp' =
       update_timestamp(last_activity_timestamp, last_completed_activity, now)
  /\ last_completed_activity' = FALSE
  /\ state_file' = save(energy', last_activity_timestamp')
  /\ state_call' = "update"
  /\ gained' = (IF last_completed_activity THEN 0 ELSE gained + energy' - energy)
  /\ gained' <= 2 * EnergyMax /\ gained' >= 0 - 2 * EnergyMax
  /\ UNCHANGED <<now, selVars, cfgVars, srvVars, loopVars, memVars>>
  /\ UNCHANGED <<recent, diagVars, obsVars, ldVars, bcVars, sdVars, refVars, runVars>>

\* State.record_activity_completion()
StateRecordCompletion ==
  /\ ~last_completed_activity
  /\ last_completed_activity' = TRUE
  /\ state_file' = save(energy, last_activity_timestamp)
  /\ state_call' = "record_activity_completion"
  /\ UNCHANGED <<energy, last_activity_timestamp, gained>>
  /\ UNCHANGED <<now, selVars, cfgVars, srvVars, loopVars, memVars>>
  /\ UNCHANGED <<recent, diagVars, obsVars, ldVars, bcVars, sdVars, refVars, runVars>>

\* datetime.now() is the naive local time: the wall clock can be set back
ClockStepBack ==
  /\ now > 0
  /\ now' = now - 1
  /\ UNCHANGED <<selVars, cfgVars, stateVars, srvVars, loopVars, memVars>>
  /\ UNCHANGED auxVars

NextState ==
  \/ StateConsumeEnergy
  \/ StateUpdate
  \/ StateRecordCompletion
  \/ ClockAdvance
  \/ ClockStepBack

SpecState == Init /\ [][NextState]_vars

(***************************************************************************)
(* The Memory objects over one storage directory: the being's Memory and   *)
(* the Memory of a DigitalBeing() built inside an activity.  persist() is  *)
(* followed step by step; the process can die at any step.                 *)
(***************************************************************************)
InvalidKinds == {"garbage", "partial", "json_list"}

\* a short-term list at the consolidation threshold
FullMemory ==
  [EmptyMemory EXCEPT !.short_term =
     [i \in 1..ShortTermLimit |->
        [timestamp |-> 0, activity_type |-> "a1", success |-> TRUE,
         error |-> None, data |-> "empty_dict", metadata |-> "dict"]]]

\* memory.json as found at startup
InitFiles == {Absent, Garbage, JsonList, json_dump(FullMemory)}

\* the records handed to store_activity_result: a plain activity result,
\* a DrawActivity-style result whose metadata holds a tuple, a chat message
StoreInputs ==
  {[type |-> "a1", result |-> [success |-> TRUE, error |-> None,
                               data |-> "empty_dict", metadata |-> "dict"]],
   [type |-> "a2", result |-> [success |-> TRUE, error |-> None,
                               data |-> "empty_dict", metadata |-> "dict_with_tuple"]],
   [type |-> "UserChatMessage", result |-> [success |-> TRUE, error |-> None,
                               data |-> "chat_dict", metadata |-> "dict"]]}

BeginPersist(o) ==
  /\ persisting' = [obj |-> o, step |-> "open"]
  /\ persisted_by' = IF persisted_by = o THEN None ELSE persisted_by

\* Memory.__init__ / _load_memory of object o
MemOpen(o) ==
  /\ persisting = Idle
  /\ o \notin opened
  /\ opened' = opened \cup {o}
  /\ LET f == files[memory_file] IN
       CASE f.kind = "json" ->
              /\ memory' = [memory EXCEPT ![o] = json_load(f)]
              /\ UNCHANGED <<files, persisting, persisted_by, file_before>>
         [] f.kind = "absent" ->
              /\ memory' = [memory EXCEPT ![o] = EmptyMemory]
              /\ UNCHANGED <<files, persisting, persisted_by, file_before>>
         [] f.kind = "json_list" ->
              /\ memory' = [memory EXCEPT ![o] = EmptyMemory]
              /\ file_before' = f
              /\ BeginPersist(o)
              /\ UNCHANGED files
         [] OTHER ->
              /\ files' = [files EXCEPT ![backup_path] = f, ![memory_file] = Absent]
              /\ memory' = [memory EXCEPT ![o] = EmptyMemory]
              /\ file_before' = Absent
              /\ BeginPersist(o)
  /\ UNCHANGED <<durable_log, stores>>
  /\ UNCHANGED <<now, selVars, cfgVars, stateVars, srvVars, loopVars>>
  /\ UNCHANGED auxVars

\* the DigitalBeing() of an activity goes out of scope
MemClose(o) ==
  /\ persisting = Idle
  /\ o = "activity" /\ o \in opened
  /\ opened' = opened \ {o}
  /\ memory' = [memory EXCEPT ![o] = EmptyMemory]
  /\ persisted_by' = IF persisted_by = o THEN None ELSE persisted_by
  /\ UNCHANGED <<files, persisting, file_before, durable_log, stores>>
  /\ UNCHANGED <<now, selVars, cfgVars, stateVars, srvVars, loopVars>>
  /\ UNCHANGED auxVars

\* Memory.store_activity_result on object o, up to the start of its persist
MemStore(o) ==
  /\ persisting = Idle
  /\ o \in opened
  /\ stores < MaxStores
  /\ stores' = stores + 1
  /\ \E in \in StoreInputs :
       memory' = [memory EXCEPT ![o] = store_activity_result(@, in.type, in.result)]
  /\ file_before' = files[memory_file]
  /\ BeginPersist(o)
  /\ UNCHANGED <<files, durable_log, opened>>
  /\ UNCHANGED <<now, selVars, cfgVars, stateVars, srvVars, loopVars>>
  /\ UNCHANGED auxVars

\* Memory.persist() called by the loop tick, on the being's own Memory
MemPersist(o) ==
  /\ persisting = Idle
  /\ o = "being" /\ o \in opened
  /\ persisted_by # o
  /\ file_before' = files[memory_file]
  /\ BeginPersist(o)
  /\ UNCHANGED <<memory, files, durable_log, opened, stores>>
  /\ UNCHANGED <<now, selVars, cfgVars, stateVars, srvVars, loopVars>>
  /\ UNCHANGED auxVars

\* Memory.clear(), on the being's own Memory
MemClear(o) ==
  /\ persisting = Idle
  /\ o = "being" /\ o \in opened
  /\ memory[o] # EmptyMemory
  /\ memory' = [memory EXCEPT ![o] = EmptyMemory]
  /\ durable_log' = {}
  /\ file_before' = files[memory_file]
  /\ BeginPersist(o)
  /\ UNCHANGED <<files, opened, stores>>
  /\ UNCHANGED <<now, selVars, cfgVars, stateVars, srvVars, loopVars>>
  /\ UNCHANGED auxVars

\* persist: open(temp_file, "w") truncates the temporary file
PersistOpenTemp ==
  /\ persisting.step = "open"
  /\ files' = [files EXCEPT ![temp_file] = Truncated(EmptyMemory)]
  /\ persisting' = [persisting EXCEPT !.step = "write"]
  /\ UNCHANGED <<memory, file_before, durable_log, persisted_by, opened, stores>>
  /\ UNCHANGED <<now, selVars, cfgVars, stateVars, srvVars, loopVars>>
  /\ UNCHANGED auxVars

\* persist: json.dump has written a part of the document
PersistWrite ==
  /\ persisting.step = "write"
  /\ files' = [files EXCEPT
       ![temp_file] = Truncated(json_dump(memory[persisting.obj]).doc)]
  /\ persisting' = [persisting EXCEPT !.step = "flush"]
  /\ UNCHANGED <<memory, file_before, durable_log, persisted_by, opened, stores>>
  /\ UNCHANGED <<now, selVars, cfgVars, stateVars, srvVars, loopVars>>
  /\ UNCHANGED auxVars

\* persist: json.dump has finished and the file is closed
PersistFlush ==
  /\ persisting.step = "flush"
  /\ files' = [files EXCEPT ![temp_file] = json_dump(memory[persisting.obj])]
  /\ persisting' = [persisting EXCEPT !.step = "replace"]
  /\ UNCHANGED <<memory, file_before, durable_log, persisted_by, opened, stores>>
  /\ UNCHANGED <<now, selVars, cfgVars, stateVars, srvVars, loopVars>>
  /\ UNCHANGED auxVars

\* persist: temp_file.replace(self.memory_file)
PersistReplace ==
  /\ persisting.step = "replace"
  /\ files' = IF temp_file = memory_file THEN files
              ELSE [files EXCEPT ![memory_file] = files[temp_file],
                                 ![temp_file] = Absent]
  /\ durable_log' = durable_log \cup Copies(memory[persisting.obj])
  /\ persisted_by' = persisting.obj
  /\ persisting' = Idle
  /\ file_before' = Absent
  /\ UNCHANGED <<memory, opened, stores>>
  /\ UNCHANGED <<now, selVars, cfgVars, stateVars, srvVars, loopVars>>
  /\ UNCHANGED auxVars

\* persist: an I/O error at the current step is caught and logged
PersistFail ==
  /\ persisting.step # "idle"
  /\ persisting' = Idle
  /\ file_before' = Absent
  /\ UNCHANGED <<memory, files, durable_log, persisted_by, opened, stores>>
  /\ UNCHANGED <<now, selVars, cfgVars, stateVars, srvVars, loopVars>>
  /\ UNCHANGED auxVars

\* the process dies: the objects are gone, the files stay
Crash ==
  /\ opened # {}
  /\ opened' = {}
  /\ memory' = [o \in MemoryObjects |-> EmptyMemory]
  /\ persisting' = Idle
  /\ persisted_by' = None
  /\ file_before' = Absent
  /\ UNCHANGED <<files, durable_log, stores>>
  /\ UNCHANGED <<now, selVars, cfgVars, stateVars, srvVars, loopVars>>
  /\ UNCHANGED auxVars

InitMem ==
  /\ now = 0
  /\ last_activity_times = [a \in Activities |-> NoTime]
  /\ returned_at = [a \in Activities |-> NoTime]
  /\ constraints = [a \in Activities |-> TRUE]
  /\ configs = constraints
  /\ configured = TRUE
  /\ energy = EnergyMax
  /\ last_activity_timestamp = NoTime
  /\ last_completed_activity = FALSE
  /\ state_file = save(energy, last_activity_timestamp)
  /\ running = TRUE
  /\ paused = FALSE
  /\ pc = "top"
  /\ current_activity = None
  /\ executing = {}
  /\ raised = FALSE
  /\ energy_at_selection = NoTime
  /\ memory = [o \in MemoryObjects |-> EmptyMemory]
  /\ files \in {[p \in MemoryPaths |-> IF p = memory_file THEN f ELSE Absent] :
                  f \in InitFiles}
  /\ persisting = Idle
  /\ file_before = Absent
  /\ durable_log = IF files[memory_file].kind = "json"
                   THEN Copies(json_load(files[memory_file])) ELSE {}
  /\ persisted_by = None
  /\ opened = {}
  /\ stores = 0
  /\ InitAux

NextMem ==
  \/ \E o \in MemoryObjects : MemOpen(o)
  \/ \E o \in MemoryObjects : MemClose(o)
  \/ \E o \in MemoryObjects : MemStore(o)
  \/ \E o \in MemoryObjects : MemPersist(o)
  \/ \E o \in MemoryObjects : MemClear(o)
  \/ PersistOpenTemp
  \/ PersistWrite
  \/ PersistFlush
  \/ PersistReplace
  \/ PersistFail
  \/ Crash

SpecMem == InitMem /\ [][NextMem]_vars

(***************************************************************************)
(* The chat projection of store_activity_result: records of conversational *)
(* and of other types, with and without a sender/message payload.          *)
(***************************************************************************)
\* what the payload "chat_dict" carries under the keys sender and message
ChatDict == [sender |-> "User", message |-> "hello"]

ChatInputs ==
  {[type |-> t, result |-> [success |-> TRUE, error |-> None,
                            data |-> d, metadata |-> "dict"]] :
     t \in {"a1", "UserChatMessage"}, d \in DataValues}

\* Memory.store_activity_result on object o, up to the start of its persist
ChatStore(o) ==
  /\ persisting = Idle
  /\ o \in opened
  /\ stores < MaxStores
  /\ stores' = stores + 1
  /\ \E in \in ChatInputs :
       memory' = [memory EXCEPT ![o] = store_activity_result(@, in.type, in.result)]
  /\ file_before' = files[memory_file]
  /\ BeginPersist(o)
  /\ UNCHANGED <<files, durable_log, opened>>
  /\ UNCHANGED <<now, selVars, cfgVars, stateVars, srvVars, loopVars>>
  /\ UNCHANGED auxVars

\* the time at which the process starts
ChatClock ==
  /\ opened = {}
  /\ stores = 0
  /\ ClockAdvance

NextChat ==
  \/ ChatClock
  \/ \E o \in MemoryObjects : MemOpen(o)
  \/ \E o \in MemoryObjects : ChatStore(o)
  \/ PersistOpenTemp
  \/ PersistWrite
  \/ PersistFlush
  \/ PersistReplace
  \/ PersistFail
  \/ Crash

SpecChat == InitMem /\ [][NextChat]_vars

(***************************************************************************)
(* Memory.get_recent_activities, applied to short-term lists as loaded     *)
(* from a memory file.                                                     *)
(***************************************************************************)
\* the selector, the state, the server and the loop of a being at rest
InitAtRest ==
  /\ now = 0
  /\ last_activity_times = [a \in Activities |-> NoTime]
  /\ returned_at = [a \in Activities |-> NoTime]
  /\ constraints = [a \in Activities |-> TRUE]
  /\ configs = constraints
  /\ configured = TRUE
  /\ energy = EnergyMax
  /\ last_activity_timestamp = NoTime
  /\ last_completed_activity = FALSE
  /\ state_file = save(energy, last_activity_timestamp)
  /\ running = TRUE
  /\ paused = FALSE
  /\ pc = "top"
  /\ current_activity = None
  /\ executing = {}
  /\ raised = FALSE
  /\ energy_at_selection = NoTime

Reverse(seq) == [i \in 1..Len(seq) |-> seq[Len(seq) + 1 - i]]

\* insertion of e into an ascending list, after the entries with an equal key
RECURSIVE InsertStable(_, _)
InsertStable(e, sorted) ==
  IF sorted = <<>> THEN <<e>>
  ELSE IF e.timestamp < Head(sorted).timestamp
       THEN <<e>> \o sorted
       ELSE <<Head(sorted)>> \o InsertStable(e, Tail(sorted))

\* a stable ascending sort by timestamp
RECURSIVE SortStable(_)
SortStable(seq) ==
  IF seq = <<>> THEN <<>>
  ELSE InsertStable(seq[Len(seq)], SortStable(SubSeq(seq, 1, Len(seq) - 1)))

sorted_reverse_naive(seq) == Reverse(SortStable(seq))

\* sorted(..., key=timestamp, reverse=True): the list is reversed, sorted by
\* the stable ascending sort and reversed again
sorted_reverse(seq) == Reverse(SortStable(Reverse(seq)))

\* all_activities[offset : offset + limit]
slice(seq, offset, limit) ==
  SubSeq(seq, offset + 1, Min(Len(seq), offset + limit))

\* get_recent_activities(limit, offset): the six fields of each entry
get_recent_activities(mem, limit, offset) ==
  slice(sorted_reverse(mem.short_term), offset, limit)

PageTypes == {"a1", "a2"}
PageEntry(t, type) ==
  [timestamp |-> t, activity_type |-> type, success |-> TRUE,
   error |-> None, data |-> "empty_dict", metadata |-> "dict"]
PageEntries == {PageEntry(t, type) : t \in 0..MaxTime, type \in PageTypes}
PageLists == UNION {[1..n -> PageEntries] : n \in 0..MaxLen}

InitPage ==
  /\ InitAtRest
  /\ \E st \in PageLists, lt \in {<<>>, <<PageEntry(MaxTime, "a1")>>} :
       memory = [o \in MemoryObjects |->
                   IF o = "being"
                   THEN [EmptyMemory EXCEPT !.short_term = st, !.long_term["a1"] = lt]
                   ELSE EmptyMemory]
  /\ files = [p \in MemoryPaths |->
                IF p = memory_file THEN json_dump(memory["being"]) ELSE Absent]
  /\ persisting = Idle
  /\ file_before = Absent
  /\ durable_log = Copies(memory["being"])
  /\ persisted_by = None
  /\ opened = {"being"}
  /\ stores = 0
  /\ InitAux

GetRecentActivities ==
  /\ \E limit \in 0..(MaxLen + 1), offset \in 0..(MaxLen + 1) :
       recent' = [called |-> TRUE, limit |-> limit, offset |-> offset,
                  result |-> get_recent_activities(memory["being"], limit, offset)]
  /\ UNCHANGED <<diagVars, callVars, bcVars, obsVars, ldVars, sdVars, refVars, runVars>>
  /\ UNCHANGED <<now, selVars, cfgVars, stateVars, srvVars, loopVars, memVars>>

NextPage == GetRecentActivities

SpecPage == InitPage /\ [][NextPage]_vars

(***************************************************************************)
(* The get_activity_history command of the server (server.py), on a memory *)
(* that grows by store_activity_result from an empty or a full short-term  *)
(* list                                                                    *)
(***************************************************************************)
\* Memory.get_activity_count: short-term plus every long-term list
get_activity_count(mem) ==
  Len(mem.short_term) + Len(mem.long_term["a1"]) + Len(mem.long_term["a2"])
    + Len(mem.long_term["UserChatMessage"])

\* "has_more": total > (offset + limit)
has_more(total, limit, offset) == total > offset + limit

\* the page sizes and offsets the front end asks for
HistoryLimits == {10, 50}
HistoryOffsets == {0, 50}

\* handle_command("get_activity_history", {limit, offset})
GetActivityHistory ==
  /\ \E limit \in HistoryLimits, offset \in HistoryOffsets :
       LET recents == get_recent_activities(memory["being"], limit, offset)
           total == get_activity_count(memory["being"])
       IN recent' = [called |-> TRUE, limit |-> limit, offset |-> offset,
                     result |-> recents,
                     has_more |-> has_more(total, limit, offset),
                     total |-> total]
  /\ UNCHANGED <<diagVars, callVars, bcVars, obsVars, ldVars, sdVars, refVars, runVars>>
  /\ UNCHANGED <<now, selVars, cfgVars, stateVars, srvVars, loopVars, memVars>>

\* store_activity_result of the being's Memory, with its persist
HistoryStore ==
  /\ stores < MaxStores
  /\ stores' = stores + 1
  /\ \E in \in StoreInputs :
       memory' = [memory EXCEPT
         !["being"] = store_activity_result(@, in.type, in.result)]
  /\ PersistAtomic("being")
  /\ UNCHANGED <<now, selVars, cfgVars, stateVars, srvVars, loopVars>>
  /\ UNCHANGED auxVars

\* the memory after the store that takes a full short-term list over the
\* threshold: the last 50 entries stay, the older ones are in long-term
ConsolidatedMemory ==
  store_activity_result(FullMemory, "a1",
    [success |-> TRUE, error |-> None, data |-> "empty_dict", metadata |-> "dict"])

InitHistory ==
  /\ InitAtRest
  /\ \E mem \in {EmptyMemory, ConsolidatedMemory} :
       memory = [o \in MemoryObjects |-> IF o = "being" THEN mem ELSE EmptyMemory]
  /\ files = [p \in MemoryPaths |->
                IF p = memory_file THEN json_dump(memory["being"]) ELSE Absent]
  /\ persisting = Idle
  /\ file_before = Absent
  /\ durable_log = Copies(memory["being"])
  /\ persisted_by = None
  /\ opened = {"being"}
  /\ stores = 0
  /\ InitAux

NextHistory ==
  \/ GetActivityHistory
  \/ HistoryStore

SpecHistory == InitHistory /\ [][NextHistory]_vars

\* the memory of a being at rest
InitMemoryAtRest ==
  /\ memory = [o \in MemoryObjects |-> EmptyMemory]
  /\ files = [p \in MemoryPaths |-> Absent]
  /\ persisting = Idle
  /\ file_before = Absent
  /\ durable_log = {}
  /\ persisted_by = None
  /\ opened = {"being"}
  /\ stores = 0

InitShared ==
  /\ InitAtRest
  /\ InitMemoryAtRest
  /\ InitAux

NextShared ==
  \/ SdInitialize
  \/ \E t \in Threads : SdCall(t)
  \/ \E t \in Threads : SdAcquire(t)
  \/ \E t \in Threads : SdBody(t)
  \/ \E t \in Threads : SdRelease(t)
  \/ \E t \in Threads : SdReturn(t)

SpecShared == InitShared /\ [][NextShared]_vars

InitRef ==
  /\ InitAtRest
  /\ InitMemoryAtRest
  /\ InitAux

NextRef ==
  \/ SdInitialize
  \/ RefSet
  \/ RefGet
  \/ RefGetCategoryData
  \/ RefGetCurrentState
  \/ CallerWritesEntry
  \/ CallerMutatesObject

SpecRef == InitRef /\ [][NextRef]_vars

(***************************************************************************)
(* DigitalBeing.run (framework/main.py): the loop of the being run on its  *)
(* own, and its termination                                                *)
(***************************************************************************)
\* a last_activity_timestamp loaded from state.json that is no ISO date
BadTime == 0 - 2

\* not configured: await asyncio.sleep(3); continue
RunIdle ==
  /\ pc = "top"
  /\ ~configured
  /\ pc' = "sleep"
  /\ UNCHANGED <<current_activity, executing, raised, energy_at_selection>>
  /\ UNCHANGED <<now, selVars, cfgVars, stateVars, srvVars, memVars, auxVars>>

\* select_next_activity returns None
RunNoActivity ==
  /\ pc = "top"
  /\ configured
  /\ \E inst_fail \in SUBSET Activities :
       suitable_activities(inst_fail) = {}
  /\ current_activity' = None
  /\ raised' = FALSE
  /\ pc' = "broadcast"
  /\ UNCHANGED <<executing, energy_at_selection>>
  /\ UNCHANGED <<now, selVars, cfgVars, stateVars, srvVars, memVars, auxVars>>

\* select_next_activity returns an activity and execute_activity runs it to
\* its end (no other task runs in this program)
RunExecute ==
  /\ pc = "top"
  /\ configured
  /\ Len(memory["being"].short_term) < MaxRecords
  /\ \E inst_fail \in SUBSET Activities :
       \E a \in suitable_activities(inst_fail), outcome \in Outcomes :
         LET result == activity_result(outcome) IN
         /\ last_activity_times' = [last_activity_times EXCEPT ![a] = now]
         /\ returned_at' = [returned_at EXCEPT ![a] = now]
         /\ current_activity' = a
         /\ memory' = [memory EXCEPT !["being"] = store_activity_result(@, a, result)]
         /\ last_completed_activity' =
              (IF result.success THEN TRUE ELSE last_completed_activity)
         /\ state_file' =
              (IF result.success THEN save(energy, last_activity_timestamp)
               ELSE state_file)
         /\ raised' = (outcome = "raise")
  /\ stores' = stores + 1
  /\ PersistAtomic("being")
  /\ energy_at_selection' = energy
  /\ pc' = "broadcast"
  /\ UNCHANGED <<constraints, executing, energy, last_activity_timestamp>>
  /\ UNCHANGED <<now, cfgVars, srvVars, auxVars>>

\* self.state.update(); self.memory.persist(); await asyncio.sleep(1)
RunTick ==
  /\ pc = "broadcast"
  /\ last_activity_timestamp # BadTime
  /\ TickAndSleep
  /\ energy_at_selection' = NoTime
  /\ UNCHANGED <<current_activity, executing, raised>>
  /\ UNCHANGED <<now, selVars, cfgVars, srvVars, auxVars>>

\* State.update raises (datetime.fromisoformat on the stored timestamp): the
\* exception is no KeyboardInterrupt and leaves run
RunUpdateRaises ==
  /\ pc = "broadcast"
  /\ last_activity_timestamp = BadTime
  /\ pc' = "exited"
  /\ UNCHANGED <<current_activity, executing, raised, energy_at_selection>>
  /\ UNCHANGED <<now, selVars, cfgVars, stateVars, srvVars, memVars, auxVars>>

\* asyncio.sleep returns
RunWake ==
  /\ pc = "sleep"
  /\ pc' = "top"
  /\ UNCHANGED <<current_activity, executing, raised, energy_at_selection>>
  /\ UNCHANGED <<now, selVars, cfgVars, stateVars, srvVars, memVars, auxVars>>

\* except KeyboardInterrupt: self.cleanup(), i.e. memory.persist(); state.save()
RunInterrupt ==
  /\ pc # "exited"
  /\ cleanup_attempted' = TRUE
  /\ UNCHANGED io_failed
  /\ UNCHANGED <<memory, stores>>
  /\ PersistAtomic("being")
  /\ state_file' = save(energy, last_activity_timestamp)
  /\ pc' = "exited"
  /\ UNCHANGED <<energy, last_activity_timestamp, last_completed_activity>>
  /\ UNCHANGED <<current_activity, executing, raised, energy_at_selection>>
  /\ UNCHANGED <<now, selVars, cfgVars, srvVars, recent, callVars, bcVars, diagVars, obsVars, ldVars, sdVars, refVars>>

InitRun ==
  /\ now = 0
  /\ last_activity_times = [a \in Activities |-> NoTime]
  /\ returned_at = [a \in Activities |-> NoTime]
  /\ constraints \in InitConfigs
  /\ configs = constraints
  /\ configured \in BOOLEAN
  /\ energy \in InitEnergies
  /\ last_activity_timestamp \in {NoTime, 0, BadTime}
  /\ last_completed_activity = FALSE
  /\ state_file = save(energy, last_activity_timestamp)
  /\ running = TRUE
  /\ paused = FALSE
  /\ pc = "top"
  /\ current_activity = None
  /\ executing = {}
  /\ raised = FALSE
  /\ energy_at_selection = NoTime
  /\ InitMemoryAtRest
  /\ InitAux

NextRun ==
  \/ RunIdle
  \/ RunNoActivity
  \/ RunExecute
  \/ RunTick
  \/ RunUpdateRaises
  \/ RunWake
  \/ RunInterrupt
  \/ ClockAdvance

SpecRun == InitRun /\ [][NextRun]_vars

(***************************************************************************)
(* The server loop with writes to storage that can fail (disk full, no     *)
(* permission) inside Memory.persist and State.save                        *)
(***************************************************************************)
\* where a write fails: not at all, at open, while writing, at the replace
PersistFailures == {"none", "open", "write", "replace"}
SaveFailures == {"none", "open", "write"}

\* state.json after open(..., "w") and an incomplete json.dump
truncated_state_file == [exists |-> TRUE, energy |-> NoTime, last_activity_timestamp |-> NoTime]

\* the files after Memory.persist with a failure at the given step
persist_with_failure(f, mem, failure) ==
  CASE failure = "none" -> persist_files(f, mem)
    [] failure = "open" -> f
    [] failure = "write" -> [f EXCEPT ![temp_file] = Truncated(json_dump(mem).doc)]
    [] OTHER -> [f EXCEPT ![temp_file] = json_dump(mem)]

\* state.json after State.save with a failure at the given step
save_with_failure(file, e, last, failure) ==
  CASE failure = "none" -> save(e, last)
    [] failure = "open" -> file
    [] OTHER -> truncated_state_file

persist_raises_uncaught(failure) == failure # "none"

\* Memory.persist: "except Exception" logs the error; nothing is raised
persist_raises(failure) == FALSE

\* State.save: "except Exception" logs the error; nothing is raised
save_raises(failure) == FALSE

\* the activities executed: one that succeeds and one that fails
FaultInputs == {<<"a1", "success">>, <<"a2", "failure">>}

\* execute_activity: the record is stored (and persisted), a success is marked
\* (and saved)
FaultRecord ==
  /\ pc = "top"
  /\ Len(memory["being"].short_term) < MaxRecords
  /\ \E input \in FaultInputs, pf \in PersistFailures, sf \in SaveFailures :
       LET a == input[1]
           outcome == input[2]
           result == activity_result(outcome)
           saved == result.success
       IN /\ memory' = [memory EXCEPT !["being"] = store_activity_result(@, a, result)]
          /\ files' = persist_with_failure(files, memory'["being"], pf)
          /\ last_completed_activity' = (IF saved THEN TRUE ELSE last_completed_activity)
          /\ state_file' = (IF saved
                            THEN save_with_failure(state_file, energy,
                                                   last_activity_timestamp, sf)
                            ELSE state_file)
          /\ io_failed' = (pf # "none" \/ (saved /\ sf # "none"))
          /\ current_activity' = a
          /\ raised' = (outcome = "raise")
  /\ stores' = stores + 1
  /\ pc' = "broadcast"
  /\ UNCHANGED <<energy, last_activity_timestamp, executing, energy_at_selection>>
  /\ UNCHANGED <<persisting, file_before, durable_log, persisted_by, opened>>
  /\ UNCHANGED <<now, selVars, cfgVars, srvVars, recent, callVars, bcVars, diagVars, obsVars, ldVars, sdVars, refVars, cleanup_attempted>>

\* self.being.state.update(); self.being.memory.persist(); an exception leaving
\* either call is caught by the loop's "except Exception", which sleeps
FaultTick ==
  /\ pc \in {"top", "broadcast"}
  /\ \E pf \in PersistFailures, sf \in SaveFailures :
       /\ energy' = update_energy(energy, last_activity_timestamp, now)
       /\ last_activity_timestamp' =
            update_timestamp(last_activity_timestamp, last_completed_activity, now)
       /\ last_completed_activity' = FALSE
       /\ state_file' = save_with_failure(state_file, energy',
                                          last_activity_timestamp', sf)
       /\ IF save_raises(sf)
          THEN /\ pc' = "error_sleep"
               /\ io_failed' = TRUE
               /\ UNCHANGED files
          ELSE /\ files' = persist_with_failure(files, memory["being"], pf)
               /\ io_failed' = (pf # "none" \/ sf # "none")
               /\ pc' = IF persist_raises(pf) THEN "error_sleep" ELSE "sleep"
  /\ UNCHANGED <<memory, stores, persisting, file_before, durable_log, persisted_by, opened>>
  /\ UNCHANGED <<current_activity, executing, raised, energy_at_selection>>
  /\ UNCHANGED <<now, selVars, cfgVars, srvVars, recent, callVars, bcVars, diagVars, obsVars, ldVars, sdVars, refVars, cleanup_attempted>>

\* asyncio.sleep returns, after a tick or after a caught error
FaultWake ==
  /\ pc \in {"sleep", "error_sleep"}
  /\ pc' = "top"
  /\ io_failed' = FALSE
  /\ UNCHANGED <<current_activity, executing, raised, energy_at_selection>>
  /\ UNCHANGED <<now, selVars, cfgVars, stateVars, srvVars, memVars>>
  /\ UNCHANGED <<recent, callVars, bcVars, diagVars, obsVars, ldVars, sdVars, refVars, cleanup_attempted>>

InitFault ==
  /\ InitAtRest
  /\ InitMemoryAtRest
  /\ InitAux

NextFault ==
  \/ FaultRecord
  \/ FaultTick
  \/ FaultWake
  \/ ClockAdvance

SpecFault == InitFault /\ [][NextFault]_vars

(***************************************************************************)
(* The selector alone: selections and availability reports over every      *)
(* configuration and selection history                                     *)
(***************************************************************************)
\* select_next_activity returns an activity and stamps its time
DiagSelect ==
  /\ \E inst_fail \in SUBSET Activities :
       \E a \in suitable_activities(inst_fail) :
         /\ last_activity_times' = [last_activity_times EXCEPT ![a] = now]
         /\ current_activity' = a
  /\ UNCHANGED <<constraints, returned_at, next_available, obsVars, ldVars>>
  /\ UNCHANGED <<pc, executing, raised, energy_at_selection>>
  /\ UNCHANGED <<now, cfgVars, stateVars, srvVars, memVars, recent, callVars, bcVars, sdVars, refVars, runVars>>

\* select_next_activity returns None; with nothing available it builds the
\* list of next available times for the log
DiagSelectNone ==
  /\ \E inst_fail \in SUBSET Activities :
       /\ suitable_activities(inst_fail) = {}
       /\ next_available' = (IF get_available_activities(inst_fail) = {}
                             THEN get_next_available_times
                             ELSE next_available)
  /\ current_activity' = None
  /\ UNCHANGED <<pc, executing, raised, energy_at_selection>>
  /\ UNCHANGED <<now, selVars, cfgVars, stateVars, srvVars, memVars, recent, callVars, bcVars, obsVars, ldVars, sdVars, refVars, runVars>>

\* get_next_available_times called on its own
DiagReport ==
  /\ next_available' = get_next_available_times
  /\ UNCHANGED <<now, selVars, cfgVars, stateVars, srvVars, loopVars, memVars>>
  /\ UNCHANGED <<recent, callVars, bcVars, obsVars, ldVars, sdVars, refVars, runVars>>

\* every activities_config the selector can be constructed with
InitDiag ==
  /\ now = 0
  /\ last_activity_times = [a \in Activities |-> NoTime]
  /\ returned_at = [a \in Activities |-> NoTime]
  /\ constraints \in [Activities -> BOOLEAN]
  /\ configs = constraints
  /\ configured = TRUE
  /\ energy \in InitEnergies
  /\ last_activity_timestamp = NoTime
  /\ last_completed_activity = FALSE
  /\ state_file = save(energy, last_activity_timestamp)
  /\ running = TRUE
  /\ paused = FALSE
  /\ pc = "top"
  /\ current_activity = None
  /\ executing = {}
  /\ raised = FALSE
  /\ energy_at_selection = NoTime
  /\ InitMemoryAtRest
  /\ InitAux

NextDiag ==
  \/ DiagSelect
  \/ DiagSelectNone
  \/ DiagReport
  \/ ClockAdvance

SpecDiag == InitDiag /\ [][NextDiag]_vars

(***************************************************************************)
(* The selector from its construction: select_next_activity before and     *)
(* after set_activity_loader, with activity classes whose constructor      *)
(* raises                                                                  *)
(***************************************************************************)
\* the classes _get_available_activities tries to instantiate
attempted == get_available_activities({})

\* set_activity_loader
SetActivityLoader ==
  /\ pc = "top"
  /\ ~activity_loader
  /\ activity_loader' = TRUE
  /\ UNCHANGED failed
  /\ UNCHANGED <<now, selVars, cfgVars, stateVars, srvVars, loopVars, memVars>>
  /\ UNCHANGED <<recent, diagVars, obsVars, callVars, bcVars, sdVars, refVars, runVars>>

\* select_next_activity without a loader: logs an error, returns None
SelectNoLoader ==
  /\ pc = "top"
  /\ ~activity_loader
  /\ pc' = "selected"
  /\ current_activity' = None
  /\ failed' = {}
  /\ UNCHANGED <<activity_loader, executing, raised, energy_at_selection>>
  /\ UNCHANGED <<now, selVars, cfgVars, stateVars, srvVars, memVars>>
  /\ UNCHANGED <<recent, diagVars, obsVars, callVars, bcVars, sdVars, refVars, runVars>>

\* select_next_activity: the constructors of inst_fail raise and are logged,
\* one of the remaining suitable activities is chosen and stamped
SelectWithFailures ==
  /\ pc = "top"
  /\ activity_loader
  /\ \E inst_fail \in SUBSET attempted :
       \E a \in suitable_activities(inst_fail) :
         /\ last_activity_times' = [last_activity_times EXCEPT ![a] = now]
         /\ current_activity' = a
         /\ failed' = inst_fail
  /\ pc' = "selected"
  /\ UNCHANGED <<constraints, returned_at, activity_loader>>
  /\ UNCHANGED <<executing, raised, energy_at_selection>>
  /\ UNCHANGED <<now, cfgVars, stateVars, srvVars, memVars>>
  /\ UNCHANGED <<recent, diagVars, obsVars, callVars, bcVars, sdVars, refVars, runVars>>

\* select_next_activity: nothing is left after the failures, or nothing is
\* suitable: returns None
SelectNoneWithFailures ==
  /\ pc = "top"
  /\ activity_loader
  /\ \E inst_fail \in SUBSET attempted :
       /\ suitable_activities(inst_fail) = {}
       /\ next_available' = (IF get_available_activities(inst_fail) = {}
                             THEN get_next_available_times
                             ELSE next_available)
       /\ failed' = inst_fail
  /\ pc' = "selected"
  /\ current_activity' = None
  /\ UNCHANGED <<activity_loader, executing, raised, energy_at_selection>>
  /\ UNCHANGED <<now, selVars, cfgVars, stateVars, srvVars, memVars>>
  /\ UNCHANGED <<recent, obsVars, callVars, bcVars, sdVars, refVars, runVars>>

\* the caller is done with the returned value
SelectDone ==
  /\ pc = "selected"
  /\ pc' = "top"
  /\ current_activity' = None
  /\ failed' = {}
  /\ UNCHANGED <<activity_loader, executing, raised, energy_at_selection>>
  /\ UNCHANGED <<now, selVars, cfgVars, stateVars, srvVars, memVars>>
  /\ UNCHANGED <<recent, diagVars, obsVars, callVars, bcVars, sdVars, refVars, runVars>>

\* ActivitySelector.__init__: no loader yet
InitSelect ==
  /\ now = 0
  /\ last_activity_times = [a \in Activities |-> NoTime]
  /\ returned_at = [a \in Activities |-> NoTime]
  /\ constraints \in [Activities -> BOOLEAN]
  /\ configs = constraints
  /\ configured = TRUE
  /\ energy \in InitEnergies
  /\ last_activity_timestamp = NoTime
  /\ last_completed_activity = FALSE
  /\ state_file = save(energy, last_activity_timestamp)
  /\ running = TRUE
  /\ paused = FALSE
  /\ pc = "top"
  /\ current_activity = None
  /\ executing = {}
  /\ raised = FALSE
  /\ energy_at_selection = NoTime
  /\ InitMemoryAtRest
  /\ InitCalls
  /\ InitObserved
  /\ activity_loader = FALSE
  /\ failed = {}

NextSelect ==
  \/ SetActivityLoader
  \/ SelectNoLoader
  \/ SelectWithFailures
  \/ SelectNoneWithFailures
  \/ SelectDone
  \/ ClockAdvance

SpecSelect == InitSelect /\ [][NextSelect]_vars

(***************************************************************************)
(* The server loop from a being that is not yet configured, with the       *)
(* pause, resume, stop_loop and start_loop commands.  The event loop       *)
(* resumes the loop coroutine whenever it can run, and an activity that    *)
(* was awaited returns.                                                    *)
(***************************************************************************)
\* one step of _run_being_loop
LoopStep ==
  \/ LoopIdle
  \/ LoopNoActivity
  \/ LoopDispatch
  \/ ExecuteReturns
  \/ LoopTick
  \/ LoopWake

\* select_next_activity is called
SelectStep == LoopNoActivity \/ LoopDispatch

InitIdle ==
  /\ now = 0
  /\ last_activity_times = [a \in Activities |-> NoTime]
  /\ returned_at = [a \in Activities |-> NoTime]
  /\ constraints = [a \in Activities |-> TRUE]
  /\ configs = constraints
  /\ configured = FALSE
  /\ energy = EnergyMax
  /\ last_activity_timestamp = NoTime
  /\ last_completed_activity = FALSE
  /\ state_file = save(energy, last_activity_timestamp)
  /\ running = TRUE
  /\ paused = FALSE
  /\ pc = "top"
  /\ current_activity = None
  /\ executing = {}
  /\ raised = FALSE
  /\ energy_at_selection = NoTime
  /\ InitMemoryAtRest
  /\ InitAux

NextIdle ==
  \/ LoopIdle
  \/ LoopNoActivity
  \/ LoopDispatch
  \/ ExecuteReturns
  \/ LoopTick
  \/ LoopWake
  \/ CommandPause
  \/ CommandResume
  \/ CommandStopLoop
  \/ CommandStartLoop
  \/ CommandSaveOnboarding
  \/ ClockAdvance

SpecIdle == InitIdle /\ [][NextIdle]_vars /\ WF_vars(LoopStep)

(***************************************************************************)
(* The selector with the weighted draw, over beings with a personality     *)
(* and activities that declare affinities                                  *)
(***************************************************************************)
PersonalityValues == {Missing, 0, 2}
FactorValues == {Missing, 1}

\* select_next_activity with candidates: the weights are built and one ticket
\* is drawn
DrawSelect ==
  /\ \E inst_fail \in SUBSET Activities :
       LET candidates == in_order(all_activities, suitable_activities(inst_fail))
           weights == [i \in 1..Len(candidates) |-> weight(personality, factors[candidates[i]])]
       IN /\ candidates # <<>>
          /\ \E ticket \in 0..(total_weight(weights) - 1) :
               LET chosen == choices(candidates, weights, ticket)
               IN /\ drawn' = [called |-> TRUE, candidates |-> candidates,
                               weights |-> weights, ticket |-> ticket, chosen |-> chosen]
                  /\ last_activity_times' = [last_activity_times EXCEPT ![chosen] = now]
                  /\ current_activity' = chosen
  /\ UNCHANGED <<constraints, returned_at, next_available, personality, factors, checked, ldVars>>
  /\ UNCHANGED <<pc, executing, raised, energy_at_selection>>
  /\ UNCHANGED <<now, cfgVars, stateVars, srvVars, memVars, recent, callVars, bcVars, sdVars, refVars, runVars>>

InitDraw ==
  /\ now = 0
  /\ last_activity_times = [a \in Activities |-> NoTime]
  /\ returned_at = [a \in Activities |-> NoTime]
  /\ constraints \in [Activities -> BOOLEAN]
  /\ configs = constraints
  /\ configured = TRUE
  /\ energy = EnergyMax
  /\ last_activity_timestamp = NoTime
  /\ last_completed_activity = FALSE
  /\ state_file = save(energy, last_activity_timestamp)
  /\ running = TRUE
  /\ paused = FALSE
  /\ pc = "top"
  /\ current_activity = None
  /\ executing = {}
  /\ raised = FALSE
  /\ energy_at_selection = NoTime
  /\ InitMemoryAtRest
  /\ InitCalls
  /\ InitLoader
  /\ personality \in [Traits -> PersonalityValues]
  /\ factors \in [Activities -> [Traits -> FactorValues]]
  /\ drawn = NoDraw
  /\ checked = NoCheck

\* the draws of one instant: cooldowns do not run out
NextDraw ==
  \/ DrawSelect
  \/ DiagSelectNone

SpecDraw == InitDraw /\ [][NextDraw]_vars

(***************************************************************************)
(* CheckPendingMessagesActivity.execute                                    *)
(* (activities/activity_check_pending_messages.py), run against the memory *)
(* its own DigitalBeing loads from the memory file                         *)
(***************************************************************************)
\* timedelta(minutes=5), in whole hours
ChatWindow == 0

\* data.status of a short-term entry: the server stores a user's message with
\* status pending, the reply activity stores it again as completed
data_status(data) ==
  CASE data = "chat_dict" -> "pending"
    [] data = "chat_dict_completed" -> "completed"
    [] OTHER -> None

\* Memory.get_chat_history(limit): self.chat_log[-limit:]
get_chat_history(mem, limit) ==
  SubSeq(mem.chat_log, Max(1, Len(mem.chat_log) - limit + 1), Len(mem.chat_log))

\* str.lower() of a sender
lower(sender) == IF sender = "User" THEN "user" ELSE sender

\* execute: the result and its data dict (the domain of data is the set of its
\* keys; an error result has no data); has_config tells whether
\* activities_config has an entry for ReplyToChatActivity
check_pending_messages(mem, has_config) ==
  LET chat_history == get_chat_history(mem, 5)
      last_message == chat_history[Len(chat_history)]
      age == now - last_message.timestamp
      is_recent == age <= ChatWindow
      is_last_from_user == lower(last_message.sender) = "user"
      should_enable == is_recent /\ is_last_from_user
  IN IF ~has_config
     THEN [called |-> TRUE, success |-> FALSE, data |-> <<>>]
     ELSE IF chat_history = <<>>
     THEN [called |-> TRUE, success |-> TRUE,
           data |-> [active |-> FALSE, reason |-> "no_history"]]
     ELSE [called |-> TRUE, success |-> TRUE,
           data |-> [active |-> should_enable,
                     last_message_age_seconds |-> age,
                     last_message_from |-> last_message.sender,
                     reason |-> IF should_enable THEN "recent_user_message"
                                ELSE IF ~is_recent THEN "too_old"
                                ELSE "last_from_being"]]

\* the short-term entries and chat entries found in memory files
PendingEntries ==
  {[timestamp |-> 0, activity_type |-> type, success |-> TRUE, error |-> None,
    data |-> data, metadata |-> "dict"] :
     type \in {"UserChatMessage", "a1"},
     data \in {"chat_dict", "chat_dict_completed", "empty_dict"}}
ChatEntries ==
  {[timestamp |-> t, sender |-> sender, message |-> "hello"] :
     t \in 0..MaxTime, sender \in {"User", "Digital Being"}}

\* a short-term entry of a user's message whose status is pending
has_pending(mem) ==
  \E i \in 1..Len(mem.short_term) :
       /\ mem.short_term[i].activity_type = "UserChatMessage"
       /\ data_status(mem.short_term[i].data) = "pending"

CheckPendingExecute ==
  /\ \E has_config \in BOOLEAN :
       checked' = check_pending_messages(memory["being"], has_config)
  /\ UNCHANGED <<personality, factors, drawn, ldVars>>
  /\ UNCHANGED <<now, selVars, cfgVars, stateVars, srvVars, loopVars, memVars>>
  /\ UNCHANGED <<recent, callVars, bcVars, diagVars, sdVars, refVars, runVars>>

InitPending ==
  /\ InitAtRest
  /\ \E st \in UNION {[1..n -> PendingEntries] : n \in 0..2},
        log \in UNION {[1..n -> ChatEntries] : n \in 0..1} :
       memory = [o \in MemoryObjects |->
                   [EmptyMemory EXCEPT !.short_term = st, !.chat_log = log]]
  /\ files = [p \in MemoryPaths |-> Absent]
  /\ persisting = Idle
  /\ file_before = Absent
  /\ durable_log = {}
  /\ persisted_by = None
  /\ opened = {"being"}
  /\ stores = 0
  /\ InitAux

NextPending ==
  \/ CheckPendingExecute
  \/ ClockAdvance

SpecPending == InitPending /\ [][NextPending]_vars

(***************************************************************************)
(* The Running iterations of the server loop with the broadcast to the     *)
(* connected clients.  broadcast_state iterates over the set self.clients  *)
(* and awaits each send; clients register and unregister while it waits.   *)
(***************************************************************************)
\* self.being.state.update(); self.being.memory.persist(); asyncio.sleep(5)
BcTickAndSleep ==
  /\ TickAndSleep
  /\ tick_calls' = [update |-> tick_calls.update + 1, persist |-> tick_calls.persist + 1]

\* select_next_activity returns None
BcNoActivity ==
  /\ pc = "top"
  /\ \E inst_fail \in SUBSET Activities : suitable_activities(inst_fail) = {}
  /\ current_activity' = None
  /\ BcTickAndSleep
  /\ raised' = FALSE
  /\ UNCHANGED <<executing, energy_at_selection, clients, broadcast>>
  /\ UNCHANGED <<now, selVars, cfgVars, srvVars>>
  /\ UNCHANGED <<recent, diagVars, obsVars, ldVars, callVars, sdVars, refVars, runVars>>

\* select_next_activity returns an activity; execute_activity is awaited
BcDispatch ==
  /\ pc = "top"
  /\ Len(memory["being"].short_term) < MaxRecords
  /\ \E inst_fail \in SUBSET Activities :
       \E a \in suitable_activities(inst_fail) :
         /\ last_activity_times' = [last_activity_times EXCEPT ![a] = now]
         /\ returned_at' = [returned_at EXCEPT ![a] = now]
         /\ current_activity' = a
         /\ executing' = executing \cup {a}
  /\ pc' = "await"
  /\ raised' = FALSE
  /\ energy_at_selection' = energy
  /\ UNCHANGED constraints
  /\ UNCHANGED <<now, cfgVars, stateVars, srvVars, memVars>>
  /\ UNCHANGED auxVars

\* execute_activity returns; broadcast_state returns at once without clients,
\* else it starts to iterate over the set and awaits the first send
BcExecuteReturns ==
  /\ pc = "await"
  /\ \E outcome \in Outcomes :
       LET result == activity_result(outcome) IN
       /\ memory' = [memory EXCEPT !["being"] =
            store_activity_result(@, current_activity, result)]
       /\ last_completed_activity' =
            (IF result.success THEN TRUE ELSE last_completed_activity)
       /\ state_file' =
            (IF result.success THEN save(energy, last_activity_timestamp) ELSE state_file)
       /\ raised' = (outcome = "raise")
  /\ stores' = stores + 1
  /\ PersistAtomic("being")
  /\ executing' = executing \ {current_activity}
  /\ IF clients = 0
     THEN pc' = "broadcast" /\ broadcast' = NoBroadcast
     ELSE pc' = "send" /\ broadcast' = [size |-> clients, left |-> clients]
  /\ UNCHANGED <<current_activity, energy, last_activity_timestamp, energy_at_selection>>
  /\ UNCHANGED <<now, selVars, cfgVars, srvVars, clients, tick_calls>>
  /\ UNCHANGED <<recent, diagVars, obsVars, ldVars, callVars, sdVars, refVars, runVars>>

\* "await client.send(message)" returns or raises (caught inside the loop);
\* the for statement then asks the set for its next element, and a set whose
\* size changed during the iteration raises RuntimeError, which leaves
\* broadcast_state and is caught by the "except Exception" of the loop
BcSendReturns ==
  /\ pc = "send"
  /\ IF clients # broadcast.size
     THEN pc' = "error_sleep" /\ broadcast' = NoBroadcast
     ELSE IF broadcast.left > 1
     THEN pc' = "send" /\ broadcast' = [broadcast EXCEPT !.left = @ - 1]
     ELSE pc' = "broadcast" /\ broadcast' = NoBroadcast
  /\ UNCHANGED <<clients, tick_calls>>
  /\ UNCHANGED <<current_activity, executing, raised, energy_at_selection>>
  /\ UNCHANGED <<now, selVars, cfgVars, stateVars, srvVars, memVars>>
  /\ UNCHANGED <<recent, diagVars, obsVars, ldVars, callVars, sdVars, refVars, runVars>>

\* after broadcast_state: update, persist, sleep
BcTick ==
  /\ pc = "broadcast"
  /\ BcTickAndSleep
  /\ energy_at_selection' = NoTime
  /\ UNCHANGED <<current_activity, executing, raised, clients, broadcast>>
  /\ UNCHANGED <<now, selVars, cfgVars, srvVars>>
  /\ UNCHANGED <<recent, diagVars, obsVars, ldVars, callVars, sdVars, refVars, runVars>>

\* asyncio.sleep(5), or the asyncio.sleep(10) of the handler, returns
BcWake ==
  /\ pc \in {"sleep", "error_sleep"}
  /\ pc' = "top"
  /\ tick_calls' = NoTick
  /\ UNCHANGED <<clients, broadcast>>
  /\ UNCHANGED <<current_activity, executing, raised, energy_at_selection>>
  /\ UNCHANGED <<now, selVars, cfgVars, stateVars, srvVars, memVars>>
  /\ UNCHANGED <<recent, diagVars, obsVars, ldVars, callVars, sdVars, refVars, runVars>>

\* handle_websocket registers a client: self.clients.add(websocket)
ClientRegister ==
  /\ clients < MaxClients
  /\ clients' = clients + 1
  /\ UNCHANGED <<broadcast, tick_calls>>
  /\ UNCHANGED <<now, selVars, cfgVars, stateVars, srvVars, loopVars, memVars>>
  /\ UNCHANGED <<recent, diagVars, obsVars, ldVars, callVars, sdVars, refVars, runVars>>

\* handle_websocket unregisters a client: self.clients.discard(websocket)
ClientUnregister ==
  /\ clients > 0
  /\ clients' = clients - 1
  /\ UNCHANGED <<broadcast, tick_calls>>
  /\ UNCHANGED <<now, selVars, cfgVars, stateVars, srvVars, loopVars, memVars>>
  /\ UNCHANGED <<recent, diagVars, obsVars, ldVars, callVars, sdVars, refVars, runVars>>

InitBroadcast ==
  /\ InitAtRest
  /\ InitMemoryAtRest
  /\ InitAux

NextBroadcast ==
  \/ BcNoActivity
  \/ BcDispatch
  \/ BcExecuteReturns
  \/ BcSendReturns
  \/ BcTick
  \/ BcWake
  \/ ClientRegister
  \/ ClientUnregister
  \/ ClockAdvance

SpecBroadcast == InitBroadcast /\ [][NextBroadcast]_vars

TypeOK ==
  /\ now \in 0..MaxTime
  /\ energy \in 0..EnergyMax
  /\ pc \in {"top", "await", "broadcast", "sleep"}

\* the step in which select_next_activity returns activity a
Selected(a) == pc = "top" /\ pc' \in {"await", "broadcast"} /\ current_activity' = a /\ executing' # executing

(***************************************************************************)
(* C1  Cooldown exclusion: select_next_activity never returns an activity  *)
(* before its cooldown has elapsed since the call that last returned it.   *)
(***************************************************************************)
C1_CooldownExclusion ==
  [][\A a \in Activities :
       Selected(a) =>
         \/ returned_at[a] = NoTime
         \/ now >= returned_at[a] + cooldown[a]]_vars

\* a selection made while another enabled, affordable activity is on cooldown
C1_Witness ==
  /\ pc = "await"
  /\ returned_at[current_activity] = now
  /\ \E b \in Activities \ {current_activity} :
       /\ returned_at[b] # NoTime
       /\ now < returned_at[b] + cooldown[b]
       /\ constraints[b]
       /\ energy >= energy_cost[b]

(***************************************************************************)
(* C2  Energy gating: select_next_activity never returns an activity whose *)
(* energy cost exceeds the energy at the time of the call; a cost equal to *)
(* the energy is eligible.                                                 *)
(***************************************************************************)
C2_EnergyGating ==
  [][\A a \in Activities : Selected(a) => energy_cost[a] <= energy]_vars

\* a selection at cost = energy while an enabled, never-run activity costs more
C2_Witness ==
  /\ pc = "await"
  /\ returned_at[current_activity] = now
  /\ energy = energy_cost[current_activity]
  /\ \E b \in Activities :
       constraints[b] /\ returned_at[b] = NoTime /\ energy_cost[b] > energy

(***************************************************************************)
(* C3  Energy bounds: after every consume_energy and update call, with any *)
(* amount and any elapsed time, the stored energy is within [0, 1].        *)
(***************************************************************************)
C3_EnergyBounds == 0 <= energy /\ energy <= EnergyMax

(***************************************************************************)
(* C4  Disabled exclusion with runtime toggling: an activity whose enabled *)
(* flag is false in the being's configuration at the time of the call is   *)
(* not returned by select_next_activity.                                   *)
(***************************************************************************)
C4_DisabledExclusion ==
  [][\A a \in Activities : Selected(a) => configs[a]]_vars

(***************************************************************************)
(* C5  At most one activity executes at a time, and the loop is at its     *)
(* await whenever an activity is executing, so the next selection happens  *)
(* only after execute_activity has returned.                               *)
(***************************************************************************)
C5_OneActivityAtATime ==
  /\ Cardinality(executing) <= 1
  /\ pc # "await" => executing = {}

\* a command handler has run while the activity is suspended
C5_Witness ==
  /\ pc = "await"
  /\ executing = {current_activity}
  /\ paused

(***************************************************************************)
(* C6  Activity fault containment: when execute raises, exactly one entry  *)
(* with success = false and error = the exception message is recorded, no  *)
(* completion is recorded, and the loop goes on to its tick.               *)
(***************************************************************************)
C6_FaultContainment ==
  [][(pc = "await" /\ pc' # "await" /\ raised') =>
       /\ memory'["being"].short_term = Append(memory["being"].short_term,
            [timestamp |-> now, activity_type |-> current_activity,
             success |-> FALSE, error |-> ExceptionMessage,
             data |-> "empty_dict", metadata |-> "dict"])
       /\ last_completed_activity' = last_completed_activity
       /\ pc' = "broadcast"]_vars

\* the loop has come back to the top after an execution that raised
C6_Witness ==
  /\ raised
  /\ pc = "top"
  /\ Len(memory["being"].short_term) >= 1
  /\ ~memory["being"].short_term[Len(memory["being"].short_term)].success

(***************************************************************************)
(* C7  Atomic persist: memory.json is never a partially written document;  *)
(* while a persist is under way, and after a crash or failure inside it,   *)
(* the file is the content it had when the persist began or the complete   *)
(* new serialization.                                                      *)
(***************************************************************************)
C7_AtomicPersist ==
  /\ files[memory_file].kind # "partial"
  /\ persisting.step # "idle" =>
       \/ files[memory_file] = file_before
       \/ files[memory_file] = json_dump(memory[persisting.obj])

\* the process died with the temporary file half written, over an older document
C7_Witness ==
  /\ opened = {}
  /\ files[temp_file].kind = "partial"
  /\ files[temp_file].doc # EmptyMemory
  /\ files[memory_file].kind = "json"
  /\ files[memory_file].doc # files[temp_file].doc

(***************************************************************************)
(* C8  No entry is lost: after every completed persist, every entry that   *)
(* was recorded and persisted, through either Memory object, is in the     *)
(* short_term or the long_term[activity_type] of memory.json, unless       *)
(* clear() was called.                                                     *)
(***************************************************************************)
C8_NoEntryLost ==
  persisting = Idle =>
    \A c \in durable_log :
      /\ files[memory_file].kind = "json"
      /\ c \in Copies(json_load(files[memory_file]))

(***************************************************************************)
(* C9  Persistence round-trip: when persist() has completed, loading       *)
(* memory.json yields structures equal to the ones persisted.              *)
(***************************************************************************)
C9_RoundTrip ==
  \A o \in MemoryObjects :
    persisted_by = o =>
      /\ files[memory_file].kind = "json"
      /\ json_load(files[memory_file]) = memory[o]

(***************************************************************************)
(* C10  Corrupted-file recovery: loading an invalid memory.json leaves the *)
(* three structures empty and a backup file holding the previous content.  *)
(***************************************************************************)
C10_CorruptRecovery ==
  [][\A o \in MemoryObjects :
       (o \notin opened /\ o \in opened' /\ files[memory_file].kind \in InvalidKinds) =>
         /\ memory'[o] = EmptyMemory
         /\ files'[backup_path] = files[memory_file]]_vars
(***************************************************************************)
(* C11  Consolidation: a store_activity_result that takes the short-term   *)
(* list above 100 entries removes exactly the oldest 50 and appends them,  *)
(* in order, to long_term under their own activity_type; at 100 or fewer   *)
(* nothing is migrated; the memory is persisted after every record.        *)
(***************************************************************************)
C11_Consolidation ==
  [][\A o \in MemoryObjects :
       (stores' = stores + 1 /\ memory'[o] # memory[o]) =>
         LET new == memory'[o].short_term
             appended == memory[o].short_term \o <<new[Len(new)]>>
             n == Len(appended)
         IN /\ persisting' = [obj |-> o, step |-> "open"]
            /\ IF n > 100
               THEN /\ new = SubSeq(appended, 51, n)
                    /\ \A t \in EntryTypes :
                         memory'[o].long_term[t] = memory[o].long_term[t] \o
                           SelectSeq(SubSeq(appended, 1, 50),
                                     LAMBDA e : e.activity_type = t)
               ELSE /\ new = appended
                    /\ memory'[o].long_term = memory[o].long_term]_vars
(***************************************************************************)
(* C12  Pagination correctness: get_recent_activities(limit, offset)       *)
(* returns exactly the entries at indices [offset, offset + limit) of the  *)
(* short-term entries in descending timestamp order, entries with equal    *)
(* timestamps in their insertion order; long-term entries never appear.    *)
(***************************************************************************)
\* the 0-based place of short-term entry i in the descending stable order
C12_Place(st, i) ==
  Cardinality({j \in 1..Len(st) :
     \/ st[j].timestamp > st[i].timestamp
     \/ st[j].timestamp = st[i].timestamp /\ j < i})

C12_Pagination ==
  recent.called =>
    LET st == memory["being"].short_term
        count == Max(0, Min(recent.limit, Len(st) - recent.offset))
    IN /\ Len(recent.result) = count
       /\ \A p \in 1..count :
            \E i \in 1..Len(st) :
              /\ C12_Place(st, i) = recent.offset + p - 1
              /\ recent.result[p] = st[i]

\* a page that starts inside a run of equal timestamps, with a long-term entry
C12_Witness ==
  /\ recent.called
  /\ recent.offset = 1
  /\ Len(recent.result) = 2
  /\ recent.result[1].timestamp = recent.result[2].timestamp
  /\ recent.result[1].activity_type # recent.result[2].activity_type
  /\ memory["being"].long_term["a1"] # <<>>
  /\ Len(memory["being"].short_term) = 3
(***************************************************************************)
(* C13  Concurrent workspace access: the bodies of the operations on one   *)
(* category run in mutual exclusion under that category's lock; when the   *)
(* lock is free the category holds exactly the writes made, each applied   *)
(* once in lock order (no lost update); a thread waits only for a thread   *)
(* that operates on the same category.                                     *)
(***************************************************************************)
C13_ConcurrentAccess ==
  /\ \A c \in Categories :
       /\ Cardinality({t \in Threads :
            sd_thread[t].pc \in {"body", "unlock"} /\ sd_thread[t].category = c}) <= 1
       /\ (\A t \in Threads :
            ~(sd_thread[t].pc \in {"body", "unlock"} /\ sd_thread[t].category = c))
          => sd_data[c] = sd_expected[c]
  /\ \A t \in Threads :
       (sd_thread[t].pc = "lock" /\ ~lock_free(sd_thread[t].category)) =>
         sd_thread[sd_locks[lock_of(sd_thread[t].category)]].category
           = sd_thread[t].category

\* a thread waits for the lock while another is half way through an update of
\* the same category that overwrites the first thread's earlier write
C13_Witness ==
  /\ sd_thread["t1"].pc = "body"
  /\ sd_thread["t1"].op = "update"
  /\ sd_thread["t1"].keys = {"k2"}
  /\ sd_data["system"] = [k \in SdKeys |-> IF k = "k1" THEN 1 ELSE 2]
  /\ sd_thread["t2"].pc = "lock"
  /\ sd_thread["t2"].category = "system"
  /\ sd_thread["t2"].op \in WriteOps
C15_OwnedCopies ==
  [][(handed' # handed \/ heap' # heap) =>
       /\ WorkspaceContent' = WorkspaceContent
       /\ StateContent' = StateContent]_vars
(***************************************************************************)
(* C16  Energy is consumed by running activities: when the loop has        *)
(* executed an activity of cost E > 0, the energy is lower than it was     *)
(* when the activity was selected.                                         *)
(***************************************************************************)
C16_EnergyConsumed ==
  (/\ pc = "broadcast"
   /\ energy_at_selection # NoTime
   /\ energy_cost[current_activity] > 0)
  => energy < energy_at_selection
(***************************************************************************)
(* C17  Final persist on termination: whenever the loop of                 *)
(* DigitalBeing.run has terminated, by an interrupt or by any exception    *)
(* leaving the loop, cleanup (persist of memory, save of state) has been   *)
(* attempted.                                                              *)
(***************************************************************************)
C17_FinalPersist == pc = "exited" => cleanup_attempted
(***************************************************************************)
(* C18  Persistence fault containment: when a write fails inside           *)
(* Memory.persist or State.save, no exception reaches the caller, the      *)
(* in-memory structures are what the operation made them without the      *)
(* failure, and the loop goes on.                                          *)
(***************************************************************************)
C18_PersistenceFault ==
  [][(io_failed' /\ pc' # pc) =>
       /\ pc' # "error_sleep"
       /\ IF pc' = "sleep"
          THEN /\ memory' = memory
               /\ energy' = update_energy(energy, last_activity_timestamp, now)
               /\ last_activity_timestamp' =
                    update_timestamp(last_activity_timestamp, last_completed_activity, now)
          ELSE /\ Len(memory'["being"].short_term) = Len(memory["being"].short_term) + 1
               /\ energy' = energy]_vars

\* after a tick whose two writes failed: an entry held in memory only, beside
\* a half-written temporary file and a truncated state file
C18_Witness ==
  /\ io_failed
  /\ pc = "sleep"
  /\ Len(memory["being"].short_term) = 1
  /\ files[memory_file].kind = "absent"
  /\ files[temp_file].kind = "partial"
  /\ state_file = truncated_state_file
(***************************************************************************)
(* C19  Next-available diagnostics: the list built by                      *)
(* get_next_available_times has, for every loaded activity, a remaining    *)
(* wait of max(0, cooldown - time since its last selection), 0 if it was   *)
(* never selected, and does not report an activity that is disabled in    *)
(* the configuration as available.                                         *)
(***************************************************************************)
C19_NextAvailable ==
  [][next_available' # next_available =>
       /\ {next_available'[i].activity : i \in 1..Len(next_available')} = Activities
       /\ \A i \in 1..Len(next_available') :
            LET e == next_available'[i]
                a == e.activity
            IN /\ e.available_in_seconds =
                    (IF last_activity_times[a] = NoTime THEN 0
                     ELSE Max(0, cooldown[a] - (now - last_activity_times[a])))
               /\ ~constraints[a] => e.available_in_seconds > 0]_vars
(***************************************************************************)
(* C20  Idle state: an iteration of the loop that starts while the being   *)
(* is not configured, is paused or is stopped stamps no selection timer,   *)
(* starts no activity and records no memory entry, and goes to sleep;      *)
(* while paused no activity is selected; and when the being stays          *)
(* configured, running and not paused, the loop calls the selector again   *)
(* and again.                                                              *)
(***************************************************************************)
C20_IdleState ==
  /\ [][(pc = "top" /\ pc' # "top" /\ (~running \/ paused \/ ~configured)) =>
          /\ pc' = "sleep"
          /\ last_activity_times' = last_activity_times
          /\ executing' = executing
          /\ memory' = memory]_vars
  /\ [][paused =>
          /\ last_activity_times' = last_activity_times
          /\ executing' \subseteq executing]_vars
  /\ (<>[](running /\ ~paused /\ configured) => []<><<SelectStep>>_vars)

\* the loop sleeps after an iteration of a being that was never configured,
\* with nothing selected and nothing recorded
C20_Witness ==
  /\ pc = "sleep"
  /\ ~configured
  /\ \A a \in Activities : last_activity_times[a] = NoTime
  /\ memory["being"] = EmptyMemory
(***************************************************************************)
(* C21  Weighted selection: each candidate's weight is 1.0 multiplied by   *)
(* (1 + creativity * creativity_factor) and by (1 + friendliness *         *)
(* social_factor) for the factors it declares; the activity returned is    *)
(* one of the surviving candidates, fixed by a single draw in which every  *)
(* candidate holds a share of the tickets equal to its weight, so          *)
(* candidates of equal weight are equally likely.                          *)
(***************************************************************************)
C21_Tickets(i) ==
  {t \in 0..(total_weight(drawn.weights) - 1) :
     choices(drawn.candidates, drawn.weights, t) = drawn.candidates[i]}

C21_WeightedSelection ==
  drawn.called =>
    /\ \A i \in 1..Len(drawn.candidates) :
         LET a == drawn.candidates[i]
             c == IF factors[a]["creativity"] = Missing THEN 2
                  ELSE 2 + (IF personality["creativity"] = Missing THEN 1
                            ELSE personality["creativity"]) * factors[a]["creativity"]
             f == IF factors[a]["friendliness"] = Missing THEN 2
                  ELSE 2 + (IF personality["friendliness"] = Missing THEN 1
                            ELSE personality["friendliness"]) * factors[a]["friendliness"]
         IN /\ drawn.weights[i] = c * f
            /\ constraints[a]
            /\ Cardinality(C21_Tickets(i)) = drawn.weights[i]
    /\ \E i \in 1..Len(drawn.candidates) :
         /\ drawn.chosen = drawn.candidates[i]
         /\ drawn.ticket \in C21_Tickets(i)
    /\ \A i, j \in 1..Len(drawn.candidates) :
         drawn.weights[i] = drawn.weights[j] =>
           Cardinality(C21_Tickets(i)) = Cardinality(C21_Tickets(j))

\* a draw between two candidates of equal weight greater than 1.0 that
\* returned the second
C21_Witness ==
  /\ drawn.called
  /\ Len(drawn.candidates) = 2
  /\ drawn.weights[1] = drawn.weights[2]
  /\ drawn.weights[1] > 4
  /\ drawn.chosen = drawn.candidates[2]
(***************************************************************************)
(* C22  CheckPendingMessagesActivity.execute returns a successful result   *)
(* whose data has pending_messages, true exactly when short-term memory    *)
(* holds a UserChatMessage entry whose data.status is pending.             *)
(***************************************************************************)
C22_PendingMessages ==
  checked.called =>
    /\ checked.success
    /\ "pending_messages" \in DOMAIN checked.data
    /\ checked.data["pending_messages"] = has_pending(memory["being"])
(***************************************************************************)
(* C23  Two-phase completion commit: update() sets last_activity_timestamp *)
(* to the current time exactly when record_activity_completion() was       *)
(* called since the previous update(), and clears the pending flag, so the *)
(* next update() without a new completion leaves the timestamp as it is;   *)
(* record_activity_completion() itself, and every other operation, leaves  *)
(* the timestamp unchanged.                                                *)
(***************************************************************************)
C23_TwoPhaseCommit ==
  [][/\ (state_call' = "update" /\ now' = now) =>
          /\ last_activity_timestamp' =
               (IF last_completed_activity THEN now ELSE last_activity_timestamp)
          /\ ~last_completed_activity'
     /\ last_activity_timestamp' # last_activity_timestamp =>
          /\ state_call' = "update"
          /\ last_completed_activity
     /\ (state_call' = "record_activity_completion" /\ now' = now) =>
          last_activity_timestamp' = last_activity_timestamp]_vars

\* after a commit at an earlier time, updates made later without a new
\* completion have left the timestamp behind the clock
C23_Witness ==
  /\ state_call = "update"
  /\ ~last_completed_activity
  /\ last_activity_timestamp # NoTime
  /\ last_activity_timestamp < now
  /\ gained > 0
(***************************************************************************)
(* C24  Tick recovery: update() with last_activity_timestamp set to T, the *)
(* value before this tick's commit, sets energy to                         *)
(* min(1.0, energy + (now - T in hours) * 0.1); update() with the          *)
(* timestamp unset leaves energy unchanged.                                *)
(***************************************************************************)
C24_TickRecovery ==
  [][(state_call' = "update" /\ now' = now) =>
       energy' = (IF last_activity_timestamp = NoTime THEN energy
                  ELSE IF energy + (now - last_activity_timestamp) * RecoveryPerHour < EnergyMax
                       THEN energy + (now - last_activity_timestamp) * RecoveryPerHour
                       ELSE EnergyMax)]_vars

\* an update has raised a low energy and the cap was not reached
C24_Witness ==
  /\ state_call = "update"
  /\ last_activity_timestamp # NoTime
  /\ gained > 0
  /\ energy > 2
  /\ energy < EnergyMax
(***************************************************************************)
(* C29  Recovery does not depend on the number of ticks: after any run of  *)
(* update() calls with no completion between them, the energy gained since *)
(* last_activity_timestamp T is at most 0.1 per hour times the time        *)
(* elapsed since T.                                                        *)
(***************************************************************************)
C29_RecoveryTickCount ==
  [][(state_call' = "update" /\ now' = now /\ last_activity_timestamp' # NoTime) =>
       gained' <= (now - last_activity_timestamp') * RecoveryPerHour]_vars
(***************************************************************************)
(* C25  Dispatch-time stamping: the call of select_next_activity that      *)
(* returns an activity sets the selection timer of that activity, and of   *)
(* no other, to the current time, before the execution starts; a call that *)
(* returns none changes no timer; the execution (success, failure result   *)
(* or exception), the tick and the sleep change no timer.                  *)
(***************************************************************************)
C25_DispatchStamping ==
  [][/\ \A a \in Activities :
          Selected(a) =>
            /\ last_activity_times' = [last_activity_times EXCEPT ![a] = now]
            /\ a \notin executing
     /\ (pc = "top" /\ pc' = "sleep") => last_activity_times' = last_activity_times
     /\ pc # "top" => last_activity_times' = last_activity_times]_vars

\* a run that failed after the clock had advanced: its timer still shows the
\* time of its dispatch
C25_Witness ==
  /\ pc = "broadcast"
  /\ Len(memory["being"].short_term) > 0
  /\ ~memory["being"].short_term[Len(memory["being"].short_term)].success
  /\ last_activity_times[current_activity] # NoTime
  /\ last_activity_times[current_activity] < now
(***************************************************************************)
(* C26  Unconditional tick and persist: every Running iteration of the     *)
(* loop, whatever the selection and the outcome of the activity, has       *)
(* called State.update() once and Memory.persist() once when it goes to    *)
(* sleep.                                                                  *)
(***************************************************************************)
C26_UnconditionalTick ==
  pc \in {"sleep", "error_sleep"} => tick_calls = [update |-> 1, persist |-> 1]

(***************************************************************************)
(* C27  Chat projection: when store_activity_result records an entry of a  *)
(* conversational type whose data carries a sender/message pair, exactly   *)
(* one chat entry with the same timestamp, sender and message is appended  *)
(* to chat_log; an entry of any other type appends nothing; and memory.json*)
(* never holds the memory entry without its chat entry or the reverse.     *)
(***************************************************************************)
C27_Projected(mem) ==
  Cardinality({i \in 1..Len(mem.short_term) :
                 /\ mem.short_term[i].activity_type \in ChatTypes
                 /\ mem.short_term[i].data = "chat_dict"})

C27_ChatProjection ==
  [][/\ \A o \in MemoryObjects :
          (persisting = Idle /\ persisting'.obj = o /\ stores' = stores + 1) =>
            LET e == memory'[o].short_term[Len(memory'[o].short_term)]
                before == memory[o].chat_log
                after == memory'[o].chat_log
            IN /\ (e.activity_type \in ChatTypes /\ e.data = "chat_dict") =>
                    after = Append(before, [timestamp |-> e.timestamp,
                                            sender |-> ChatDict.sender,
                                            message |-> ChatDict.message])
               /\ e.activity_type \notin ChatTypes => after = before
     /\ files'[memory_file].kind = "json" =>
          LET doc == json_load(files'[memory_file])
          IN Len(doc.chat_log) = C27_Projected(doc)]_vars

\* a chat message and its chat entry are in memory.json after a completed persist
C27_Witness ==
  /\ persisted_by # None
  /\ files[memory_file].kind = "json"
  /\ LET doc == json_load(files[memory_file])
     IN /\ Len(doc.chat_log) = 1
        /\ \E i \in 1..Len(doc.short_term) :
             /\ doc.short_term[i].activity_type = "UserChatMessage"
             /\ doc.short_term[i].data = "chat_dict"
             /\ doc.short_term[i].timestamp = doc.chat_log[1].timestamp
        /\ \E i \in 1..Len(doc.short_term) :
             doc.short_term[i].activity_type \notin ChatTypes

(***************************************************************************)
(* C28  Scheduler fails closed: a select_next_activity call made without a *)
(* loader, or in which the instantiation of an activity failed, returns    *)
(* None and stamps no timer.                                               *)
(***************************************************************************)
C28_FailsClosed ==
  [][(pc = "top" /\ pc' = "selected" /\ (~activity_loader \/ failed' # {})) =>
       /\ current_activity' = None
       /\ last_activity_times' = last_activity_times]_vars

(***************************************************************************)
(* C30  Paging consistency: when the get_activity_history command, asked   *)
(* with a limit > 0, reports has_more = true, the same query at            *)
(* offset + limit returns at least one activity.                           *)
(***************************************************************************)
C30_PagingConsistency ==
  [][(recent' # recent /\ recent'.limit > 0 /\ recent'.has_more) =>
       Len(get_recent_activities(memory'["being"], recent'.limit,
                                 recent'.offset + recent'.limit)) >= 1]_vars

====
